---- MODULE Spec2Model ----
(***************************************************************************)
(* A model of the Kqlmagic orchestration layer, azure/Kqlmagic/kql_magic.py *)
(* (class Kqlmagic): the cell entry point execute, the query lifecycle      *)
(* execute_query, the connection-info helpers and the cache commands.       *)
(*                                                                          *)
(* The state is what survives a call: the connection registry with the      *)
(* per-connection options overlay, the shell's user namespace, the          *)
(* configuration traits and the ResultSet objects.  `last` records the      *)
(* most recent call: what it was given, what it called on its               *)
(* collaborators (in order), and how it ended.                              *)
(*                                                                          *)
(* A call is one atomic action.  The handler is written as a chain of       *)
(* steps over a frame (the call's locals plus the state it mutates), one    *)
(* operator per block of the source.                                        *)
(***************************************************************************)
EXTENDS Integers, Sequences, FiniteSets, TLC

VARIABLES connections, conn_options, current, user_ns, traits, nresults, rs, last

vars == <<connections, conn_options, current, user_ns, traits, nresults, rs, last>>

\* ------------------------------------------------------------------ bounds

\* Longest error message of a failed validation probe, in tokens.
MaxMsgLen == 3
\* ResultSet objects created in one run.
MaxResultSets == 2
\* Parsed queries or commands in one cell.
MaxCell == 2

\* ------------------------------------------------------------ python values

\* Python's None where a string is expected.
NONE == "<None>"

EmptyOpts == [k \in {} |-> TRUE]

\* dict.get(key, default)
Get(d, k, default) == IF k \in DOMAIN d THEN d[k] ELSE default

\* Truth value of an option that holds a bool (an absent one reads as None, given
\* here as FALSE), and of one that holds a string or None.
Truthy(v) == v = TRUE

TruthyStr(v) == v \notin {NONE, ""}

\* str.strip() on the query texts of the model.
Strip(q) == CASE q = " " -> "" [] q = " q " -> "q" [] q = " qx " -> "qx" [] OTHER -> q

\* str.find(sub): the 0-based index of the first occurrence of an indivisible
\* piece of text in a message (a sequence of such pieces), -1 when absent.
RECURSIVE FindFrom(_, _, _)
FindFrom(msg, sub, i) == IF i > Len(msg) THEN -1 ELSE IF msg[i] = sub THEN i - 1 ELSE FindFrom(msg, sub, i + 1)

Find(msg, sub) == FindFrom(msg, sub, 1)

\* sub in msg
Contains(msg, sub) == \E i \in 1..Len(msg) : msg[i] = sub

AADSTS50079 == "AADSTS50079"

MFA == "multi-factor authentication"

OtherText == "other text"

\* ---------------------------------------------------------------- values

NoConn == <<>>

Unbound == [kind |-> "unbound", id |-> 0, fork |-> 0, raw |-> "", col |-> ""]

NoneV == [kind |-> "None", id |-> 0, fork |-> 0, raw |-> "", col |-> ""]

\* A reference to the ResultSet object id.
ResultSetV(id) == [kind |-> "ResultSet", id |-> id, fork |-> 0, raw |-> "", col |-> ""]

\* ResultSet.fork_result(k): the fork view of table k.
ForkV(id, k) == [kind |-> "Fork", id |-> id, fork |-> k, raw |-> "", col |-> ""]

\* ResultSet.to_dataframe(): a new object made from the raw data held then.
DataFrameV(id, raw) == [kind |-> "DataFrame", id |-> id, fork |-> 0, raw |-> raw, col |-> ""]

\* One entry of ResultSet.to_dict(): the data of column col.
ColumnV(id, raw, col) == [kind |-> "Column", id |-> id, fork |-> 0, raw |-> raw, col |-> col]

\* The value a command returns (MarkdownString, UrlReference, Palette, ...).
CommandV(kind, name) == [kind |-> kind, id |-> 0, fork |-> 0, raw |-> "", col |-> name]

NoExc == [type |-> "none", msg |-> <<>>]

Exc(type, msg) == [type |-> type, msg |-> msg]

\* A call on a collaborator, or a message shown to the user.
Ev(op, conn, arg) == [op |-> op, conn |-> conn, arg |-> arg]

\* ------------------------------------------------------- configuration

\* The configuration traits of a freshly constructed Kqlmagic.
DefaultTraits ==
    [short_errors |-> TRUE, auto_dataframe |-> FALSE, columns_to_local_vars |-> FALSE,
     feedback |-> TRUE, show_conn_info |-> "current", last_raw_result_var |-> "_kql_raw_result_",
     enable_suppress_result |-> TRUE, validate_connection_string |-> TRUE,
     auto_popup_schema |-> TRUE, add_schema_to_help |-> TRUE, cache |-> NONE, use_cache |-> NONE]

\* --------------------------------------------------- connection strings

\* A connection string is the tuple of its parts <<schema, authentication,
\* cluster, database>>; <<>> is the empty text, a one-element tuple a text that
\* no engine can parse.
EmptyText == <<>>

Garbage == <<"garbage">>

Kusto1 == <<"kusto", "user", "cl1", "db1">>

Kusto2 == <<"kusto", "user", "cl2", "db2">>

LogAnalytics == <<"loganalytics", "user", "ws1", "db3">>

\* "{0}://code().cluster('{1}').database('{2}')".format(schema, cluster, database)
CodeString(schema, cluster, database) == <<schema, "code", cluster, database>>

WellFormed(cs) == Len(cs) = 4

\* What the engines expose of a connection (named by its connection string).
URI_SCHEMA_NAME(conn) == conn[1]

get_cluster(conn) == conn[3]

get_database(conn) == conn[4]

get_conn_name(conn) == conn

\* isinstance(conn, KustoEngine)
IsKustoEngine(conn) == conn[1] = "kusto"

\* Every connection the model can hold.
ConnUniverse == {Kusto1, Kusto2, LogAnalytics, CodeString("kusto", "cl1", "db1"), CodeString("kusto", "cl2", "db2")}

DoneFlags == {"validate_connection_string_done", "auto_popup_schema_done", "add_schema_to_help_done"}

\* ------------------------------------------------------------- the frame

NoResultSet == [present |-> FALSE, fork_table_id |-> 0]

NoRS ==
    [id |-> 0, raw |-> "", parametrized_query |-> <<>>, fork_table_id |-> 0, forks |-> {},
     metadata |-> EmptyOpts, feedback_info |-> <<>>, suppress_result |-> FALSE, display_info |-> FALSE]

\* The state a call works on, as a record.
StateRec ==
    [connections |-> connections, conn_options |-> conn_options, current |-> current,
     user_ns |-> user_ns, traits |-> traits, nresults |-> nresults, rs |-> rs]

\* Raise e / return v / one more call or message in the log.
Raise(f, e) == [f EXCEPT !.pc = "raised", !.exc = e]

Return(f, v) == [f EXCEPT !.pc = "returned", !.result = v]

Log(f, op, conn, arg) == [f EXCEPT !.log = Append(@, Ev(op, conn, arg))]

\* The frame of execute_query(parsed, user_ns, result_set): lines 509-512.
\* suppress_results is computed by SuppressResults below.
Frame(st, caller_ns, parsed, result_set, env, suppress, log) ==
    [connections |-> st.connections, conn_options |-> st.conn_options, current |-> st.current,
     user_ns |-> st.user_ns, traits |-> st.traits, nresults |-> st.nresults, rs |-> st.rs,
     caller_ns |-> caller_ns, parsed |-> parsed, options |-> parsed.options,
     query |-> Strip(parsed.query), connection_string |-> parsed.connection,
     suppress_results |-> suppress, result_set |-> result_set, env |-> env,
     conn |-> NoConn, schema_file_path |-> NONE, schema_calls |-> 0,
     start_time |-> <<>>, end_time |-> <<>>, parametrized_query |-> <<>>, raw |-> "",
     save_as_file_path |-> <<>>, saved |-> 0, fork_table_id |-> 0,
     log |-> log, pc |-> "run", exc |-> NoExc, result |-> NoneV]

\* options.get("suppress_results", False) and options.get("enable_suppress_result", self.enable_suppress_result)
SuppressResults(options, tr) ==
    Truthy(Get(options, "suppress_results", FALSE)) /\ Truthy(Get(options, "enable_suppress_result", tr.enable_suppress_result))

\* The configured trait alone, whatever the invocation's option.
ShortErrors_TraitOnly(options, tr) == tr.short_errors

\* options.get("short_errors", self.short_errors)
ShortErrors(options, tr) == Truthy(Get(options, "short_errors", tr.short_errors))

\* ------------------------------------------------- the connection registry

\* Connection.get_connection(connection_string, user_ns, **options): the empty
\* text is the current connection, a text no engine parses is a
\* connection-string-format error, any other text names a connection of the
\* registry, created on first use, which becomes the current one.  The call is
\* logged with the connection it returned.
get_connection(f, cs) ==
    IF cs = EmptyText
    THEN IF f.current = NoConn
         THEN Raise(Log(f, "get_connection", NoConn, cs), Exc("ConnectionError", <<"no current connection">>))
         ELSE [Log(f, "get_connection", f.current, cs) EXCEPT !.conn = f.current]
    ELSE IF ~WellFormed(cs)
    THEN Raise(Log(f, "get_connection", NoConn, cs), Exc("KqlEngineError", <<"invalid connection string">>))
    ELSE [Log(f, "get_connection", cs, cs) EXCEPT !.conn = cs, !.current = cs, !.connections = @ \cup {cs}]

\* Connection.get_connection_list_formatted() / get_current_connection_formatted()
get_connection_list_formatted(f) == IF f.connections = {} THEN <<>> ELSE <<"connection list">>

get_current_connection_formatted(f) == "current connection"

\* ------------------------------------------------ connection information

\* Kqlmagic._get_connection_info(**options)
get_connection_info(f, options) ==
    LET mode == Get(options, "show_conn_info", f.traits.show_conn_info) IN
    IF mode = "current" THEN get_connection_list_formatted(f)
    ELSE IF mode = "list" THEN <<get_current_connection_formatted(f)>>
    ELSE <<>>

\* Kqlmagic._show_connection_info(**options)
show_connection_info(f, options) ==
    LET msg == get_connection_info(f, options) IN
    IF Len(msg) > 0 THEN Log(f, "showInfoMessage", NoConn, msg) ELSE f

\* --------------------------------------------------- execute_query, steps

\* "set connection", lines 517-540.
SetConnection(f) ==
    LET g == get_connection([f EXCEPT !.pc = "run"], f.connection_string) IN
    IF g.pc # "raised" THEN g
    ELSE IF g.exc.type = "KqlEngineError"
    THEN IF ShortErrors(f.options, f.traits)
         THEN Return(Log(Log(g, "showDangerMessage", NoConn, g.exc.msg), "showInfoMessage", NoConn, <<"to get help on connection string formats, run: %kql --help 'conn'">>), NoneV)
         ELSE [g EXCEPT !.pc = "propagated"]
    ELSE IF ShortErrors(f.options, f.traits)
         THEN Return(show_connection_info(Log(g, "showDangerMessage", NoConn, g.exc.msg), "show_conn_info" :> "list"), NoneV)
         ELSE [g EXCEPT !.pc = "propagated"]

\* The gate without the test of the done flag.
NeedsValidation_IgnoresFlag(f) == Truthy(Get(f.options, "validate_connection_string", f.traits.validate_connection_string))

\* The gate of the validation probe, line 544.
NeedsValidation(f) ==
    /\ "validate_connection_string_done" \notin f.conn_options[f.conn]
    /\ Truthy(Get(f.options, "validate_connection_string", f.traits.validate_connection_string))

\* The test with either piece of the signature rather than both.
IsMfaFailure_EitherPiece(msg, conn) == (Find(msg, AADSTS50079) > 0 \/ Find(msg, MFA) > 0) /\ IsKustoEngine(conn)

\* The test for the multi-factor-authentication failure, line 551.
IsMfaFailure(msg, conn) == Find(msg, AADSTS50079) > 0 /\ Find(msg, MFA) > 0 /\ IsKustoEngine(conn)

\* The connection string of the retry, lines 559-562.
DeviceCodeString(conn) == CodeString(URI_SCHEMA_NAME(conn), get_cluster(conn), get_database(conn))

\* conn.validate(**options) followed by conn.set_validation_result(True); the
\* probe's outcome is <<>> (it passed) or the message of the error it raised.
Validate(f, outcome) ==
    LET g == Log(f, "validate", f.conn, outcome) IN
    IF outcome = <<>> THEN Log(g, "set_validation_result", g.conn, <<>>)
    ELSE Raise(g, Exc("Exception", outcome))

\* The retry repeated when its own probe fails with the signature again.
RetryWithCode_Again(f) ==
    LET g == Log(f, "showInfoMessage", NoConn, <<"replaced connection with code authentication">>)
        cs == DeviceCodeString(g.conn)
        h == get_connection([g EXCEPT !.connection_string = cs], cs)
        r == IF h.pc = "raised" THEN h ELSE Validate(h, h.env.validate2)
    IN IF r.pc = "raised" /\ h.pc # "raised" /\ IsMfaFailure(r.exc.msg, r.conn)
       THEN Validate(get_connection([r EXCEPT !.pc = "run", !.exc = NoExc], cs), r.env.validate2)
       ELSE r

\* The retry keeping the connection text the caller gave.
RetryWithCode_KeepsText(f) ==
    LET g == Log(f, "showInfoMessage", NoConn, <<"replaced connection with code authentication">>)
        cs == DeviceCodeString(g.conn)
        h == get_connection(g, cs)
    IN IF h.pc = "raised" THEN h ELSE Validate(h, h.env.validate2)

\* The retry with code authentication, lines 557-565.
RetryWithCode(f) ==
    LET g == Log(f, "showInfoMessage", NoConn, <<"replaced connection with code authentication">>)
        cs == DeviceCodeString(g.conn)
        h == get_connection([g EXCEPT !.connection_string = cs], cs)
    IN IF h.pc = "raised" THEN h ELSE Validate(h, h.env.validate2)

\* The done flag of the validation, line 567.
SetValidationDone(f) == [f EXCEPT !.conn_options[f.conn] = @ \cup {"validate_connection_string_done"}]

\* The validation step marking the connection done when its probe failed.
ValidateConnection_FlagsFailure(f) ==
    IF f.pc # "run" THEN f
    ELSE IF ~NeedsValidation(f) THEN SetValidationDone(f)
    ELSE LET g == Validate(f, f.env.validate) IN
         IF g.pc # "raised" THEN SetValidationDone(g)
         ELSE IF ~IsMfaFailure(g.exc.msg, g.conn) THEN SetValidationDone(g)
         ELSE LET h == RetryWithCode(Log([g EXCEPT !.pc = "run", !.exc = NoExc], "showDangerMessage", NoConn, g.exc.msg)) IN
              SetValidationDone(h)

\* The validation step going on after a probe that failed without the signature.
ValidateConnection_IgnoresFailure(f) ==
    IF f.pc # "run" THEN f
    ELSE IF ~NeedsValidation(f) THEN SetValidationDone(f)
    ELSE LET g == Validate(f, f.env.validate) IN
         IF g.pc # "raised" THEN SetValidationDone(g)
         ELSE IF ~IsMfaFailure(g.exc.msg, g.conn) THEN [g EXCEPT !.pc = "run", !.exc = NoExc]
         ELSE LET h == RetryWithCode(Log([g EXCEPT !.pc = "run", !.exc = NoExc], "showDangerMessage", NoConn, g.exc.msg)) IN
              IF h.pc = "raised" THEN h ELSE SetValidationDone(h)

\* "validate connection", lines 543-567.
ValidateConnection(f) ==
    IF f.pc # "run" THEN f
    ELSE IF ~NeedsValidation(f) THEN SetValidationDone(f)
    ELSE LET g == Validate(f, f.env.validate) IN
         IF g.pc # "raised" THEN SetValidationDone(g)
         ELSE IF ~IsMfaFailure(g.exc.msg, g.conn) THEN g
         ELSE LET h == RetryWithCode(Log([g EXCEPT !.pc = "run", !.exc = NoExc], "showDangerMessage", NoConn, g.exc.msg)) IN
              IF h.pc = "raised" THEN h ELSE SetValidationDone(h)

\* Database_html.get_schema_file_path(conn, **options): the k-th call of the
\* invocation returns (or raises) what the environment holds for it.
GetSchemaFilePath(f) ==
    LET k == f.schema_calls + 1
        out == f.env.schema[k]
        g == Log([f EXCEPT !.schema_calls = k], "get_schema_file_path", f.conn, <<>>)
    IN IF out = "raise" THEN Raise(g, Exc("Exception", <<"schema error">>))
       ELSE [g EXCEPT !.schema_file_path = out]

\* The popup gate without the per-connection flag.
NeedsPopup_IgnoresFlag(f) ==
    \/ Truthy(Get(f.options, "popup_schema", FALSE))
    \/ Truthy(Get(f.options, "auto_popup_schema", f.traits.auto_popup_schema))

\* The gate of the schema popup, lines 570-572.
NeedsPopup(f) ==
    \/ Truthy(Get(f.options, "popup_schema", FALSE))
    \/ /\ "auto_popup_schema_done" \notin f.conn_options[f.conn]
       /\ Truthy(Get(f.options, "auto_popup_schema", f.traits.auto_popup_schema))

\* The gate of the help-menu registration, line 577.
NeedsHelpItem(f) ==
    /\ "add_schema_to_help_done" \notin f.conn_options[f.conn]
    /\ Truthy(Get(f.options, "add_schema_to_help", FALSE))

\* The schema popup setting the flag only when it showed the popup.
PopupSchema_FlagsOnPopup(f) ==
    IF f.pc # "run" THEN f
    ELSE LET g == IF NeedsPopup(f) THEN GetSchemaFilePath(f) ELSE f
             h == IF NeedsPopup(f) /\ g.pc = "run" THEN Log(g, "popup_schema", g.conn, <<g.schema_file_path>>) ELSE g
         IN IF h.pc # "run" \/ ~NeedsPopup(f) THEN h
            ELSE [h EXCEPT !.conn_options[h.conn] = @ \cup {"auto_popup_schema_done"}]

\* The schema popup, lines 569-576.
PopupSchema(f) ==
    IF f.pc # "run" THEN f
    ELSE LET g == IF NeedsPopup(f) THEN GetSchemaFilePath(f) ELSE f
             h == IF NeedsPopup(f) /\ g.pc = "run" THEN Log(g, "popup_schema", g.conn, <<g.schema_file_path>>) ELSE g
         IN IF h.pc # "run" THEN h
            ELSE [h EXCEPT !.conn_options[h.conn] = @ \cup {"auto_popup_schema_done"}]

\* The help-menu step computing the path anew whatever the popup computed.
AddSchemaToHelp_Recomputes(f) ==
    IF f.pc # "run" \/ ~NeedsHelpItem(f) THEN f
    ELSE LET g == GetSchemaFilePath(f) IN
         IF g.pc # "run" THEN g
         ELSE [Log(g, "add_menu_item", get_conn_name(g.conn), <<g.schema_file_path>>) EXCEPT !.conn_options[g.conn] = @ \cup {"add_schema_to_help_done"}]

\* The help-menu step setting its flag whether or not it registered.
AddSchemaToHelp_SetsFlag(f) ==
    IF f.pc # "run" THEN f
    ELSE IF ~NeedsHelpItem(f) THEN [f EXCEPT !.conn_options[f.conn] = @ \cup {"add_schema_to_help_done"}]
    ELSE LET g == IF TruthyStr(f.schema_file_path) THEN f ELSE GetSchemaFilePath(f) IN
         IF g.pc # "run" THEN g
         ELSE [Log(g, "add_menu_item", get_conn_name(g.conn), <<g.schema_file_path>>) EXCEPT !.conn_options[g.conn] = @ \cup {"add_schema_to_help_done"}]

\* The help-menu registration, lines 577-580.
AddSchemaToHelp(f) ==
    IF f.pc # "run" \/ ~NeedsHelpItem(f) THEN f
    ELSE LET g == IF TruthyStr(f.schema_file_path) THEN f ELSE GetSchemaFilePath(f) IN
         IF g.pc # "run" THEN g
         ELSE [Log(g, "add_menu_item", get_conn_name(g.conn), <<g.schema_file_path>>) EXCEPT !.conn_options[g.conn] = @ \cup {"add_schema_to_help_done"}]

\* No short-circuit on an empty query.
NoQuery_Skipped(f) == f

\* No query: report the connection, lines 582-588.
NoQuery(f) ==
    IF f.pc # "run" \/ f.query # "" THEN f
    ELSE IF f.connection_string = EmptyText /\ f.connections # {} /\ ~f.suppress_results
    THEN Return(show_connection_info(f, f.options), NoneV)
    ELSE Return(f, NoneV)

\* time.time(): the reading taken by the k-th call of the invocation, which
\* starts when the clock shows f.env.clock.
TimeReading(f, k) == <<"time", f.env.clock + k>>

\* ----------------------------------------------------------- raw results

\* What conn.execute can return: the columns of the table, whether the backend
\* flagged the result partial, and how many tables it holds.
RawResults == {"r1", "r2"}

Columns(raw) == IF raw = "r1" THEN {"c1"} ELSE {"c1", "c2"}

IsPartial(raw) == raw = "r2"

Tables(raw) == IF raw = "r1" THEN 1 ELSE 2

\* Parameterizer(params_dict).expand(query): the query text with the values
\* its parameters have in the bindings it is expanded against.  The query 'qx'
\* has the parameter x, the other queries have none.
Expand(query, bindings) == IF query = "qx" THEN <<query, bindings["x"]>> ELSE <<query>>

\* A params_dict given by name: the dictionary that binds x to that name.
ParamsDict(name) == [v \in {"x"} |-> <<"param of", name>>]

\* CacheClient().save(...): the path of the file written, as its components.
SavedPath(kind, target) == IF kind = "filepath" THEN <<"cwd", target>> ELSE <<target, "query file">>

\* A collaborator call of the shaping steps: it raises when the environment
\* says so, and is logged otherwise.
Call(f, op, arg) ==
    IF f.env.fail = op THEN Raise(Log(f, op, f.conn, arg), Exc("Exception", <<op, "failed">>))
    ELSE Log(f, op, f.conn, arg)

\* The submission expanding the query on continuation as well.
SubmitQuery_Reexpands(f) ==
    IF f.pc # "run" THEN f
    ELSE LET g == [Log(f, "time.time", NoConn, TimeReading(f, 1)) EXCEPT !.start_time = TimeReading(f, 1)]
             params_dict == IF Get(f.options, "params_dict", "") # "" THEN ParamsDict(f.options["params_dict"]) ELSE f.caller_ns
             h == [Log(g, "expand", NoConn, <<g.query>>) EXCEPT !.parametrized_query = Expand(g.query, params_dict)]
             i == Log(h, "execute", h.conn, h.parametrized_query)
         IN IF i.env.execute = "raise" THEN Raise(i, Exc("Exception", <<"query failed">>))
            ELSE [Log(i, "time.time", NoConn, TimeReading(f, 2)) EXCEPT !.raw = i.env.execute, !.end_time = TimeReading(f, 2)]

\* "submit query", lines 592-598.
SubmitQuery(f) ==
    IF f.pc # "run" THEN f
    ELSE LET g == [Log(f, "time.time", NoConn, TimeReading(f, 1)) EXCEPT !.start_time = TimeReading(f, 1)]
             params_dict == IF Get(f.options, "params_dict", "") # "" THEN ParamsDict(f.options["params_dict"]) ELSE f.caller_ns
             h == IF f.result_set.present
                  THEN [g EXCEPT !.parametrized_query = f.rs.parametrized_query]
                  ELSE [Log(g, "expand", NoConn, <<g.query>>) EXCEPT !.parametrized_query = Expand(g.query, params_dict)]
             i == Log(h, "execute", h.conn, h.parametrized_query)
         IN IF i.env.execute = "raise" THEN Raise(i, Exc("Exception", <<"query failed">>))
            ELSE [Log(i, "time.time", NoConn, TimeReading(f, 2)) EXCEPT !.raw = i.env.execute, !.end_time = TimeReading(f, 2)]

\* save_as, lines 600-603.
SaveAs(f) ==
    IF f.pc # "run" \/ Get(f.options, "save_as", NONE) = NONE THEN f
    ELSE LET g == Call(f, "save_as", <<f.options["save_as"]>>) IN
         IF g.pc # "run" THEN g ELSE [g EXCEPT !.save_as_file_path = SavedPath("filepath", f.options["save_as"])]

\* save_to, lines 604-607.
SaveTo(f) ==
    IF f.pc # "run" \/ Get(f.options, "save_to", NONE) = NONE THEN f
    ELSE LET g == Call(f, "save_to", <<f.options["save_to"]>>) IN
         IF g.pc # "run" THEN g ELSE [g EXCEPT !.save_as_file_path = SavedPath("filefolder", f.options["save_to"])]

\* The metadata of a new ResultSet, lines 614-618: the magic, the parsed object
\* of the invocation that creates ResultSet id, and the connection's name.
NewMetadata(f, id) == ("magic" :> <<"self">>) @@ ("parsed" :> <<"parsed of", id>>) @@ ("connection" :> get_conn_name(f.conn))

\* The modelling step making a new ResultSet on continuation as well.
ModelResult_Recreates(f) ==
    IF f.pc # "run" THEN f
    ELSE LET id == f.nresults + 1 IN
         [Log(f, "ResultSet", f.conn, <<f.raw>>) EXCEPT
            !.fork_table_id = 0, !.nresults = id, !.saved = id, !.result = ResultSetV(id),
            !.rs = [id |-> id, raw |-> f.raw, parametrized_query |-> f.parametrized_query,
                    fork_table_id |-> 0, forks |-> {}, metadata |-> NewMetadata(f, id),
                    feedback_info |-> <<>>, suppress_result |-> FALSE, display_info |-> FALSE]]

\* "model query results", lines 611-625.
ModelResult(f) ==
    IF f.pc # "run" THEN f
    ELSE IF ~f.result_set.present
    THEN LET id == f.nresults + 1 IN
         [Log(f, "ResultSet", f.conn, <<f.raw>>) EXCEPT
            !.fork_table_id = 0, !.nresults = id, !.saved = id, !.result = ResultSetV(id),
            !.rs = [id |-> id, raw |-> f.raw, parametrized_query |-> f.parametrized_query,
                    fork_table_id |-> 0, forks |-> {}, metadata |-> NewMetadata(f, id),
                    feedback_info |-> <<>>, suppress_result |-> FALSE, display_info |-> FALSE]]
    ELSE [Log(f, "_update", f.conn, <<f.raw>>) EXCEPT
            !.fork_table_id = f.result_set.fork_table_id, !.saved = f.rs.id, !.result = ResultSetV(f.rs.id),
            !.rs.feedback_info = <<>>, !.rs.raw = f.raw]

\* Whether feedback lines are collected, options.get("feedback", self.feedback).
Feedback(f) == Truthy(Get(f.options, "feedback", f.traits.feedback))

AddFeedback(f, line) == IF Feedback(f) THEN [f EXCEPT !.rs.feedback_info = Append(@, line)] ELSE f

\* The annotation keeping the entries the metadata already holds.
Annotate_KeepsEntries(f) ==
    IF f.pc # "run" THEN f
    ELSE LET info == IF f.connection_string = EmptyText /\ f.connections # {} THEN get_connection_info(f, f.options) ELSE <<>>
             g == [f EXCEPT !.rs.metadata = @ @@ ("conn_info" :> info) @@ ("start_time" :> f.start_time) @@ ("end_time" :> f.end_time)]
             h == IF IsPartial(g.rs.raw) /\ ~g.suppress_results THEN Log(g, "showWarningMessage", NoConn, <<"partial results">>) ELSE g
         IN AddFeedback(h, <<"Done">>)

\* conn_info, the times, the partial-result warning and the "Done" line, lines 627-640.
Annotate(f) ==
    IF f.pc # "run" THEN f
    ELSE LET info == IF f.connection_string = EmptyText /\ f.connections # {} THEN get_connection_info(f, f.options) ELSE <<>>
             g == [f EXCEPT !.rs.metadata = ("conn_info" :> info) @@ ("start_time" :> f.start_time) @@ ("end_time" :> f.end_time) @@ @]
             h == IF IsPartial(g.rs.raw) /\ ~g.suppress_results THEN Log(g, "showWarningMessage", NoConn, <<"partial results">>) ELSE g
         IN AddFeedback(h, <<"Done">>)

\* columns_to_local_vars, lines 642-650.
ColumnsToLocalVars(f) ==
    IF f.pc # "run" \/ ~Truthy(Get(f.options, "columns_to_local_vars", f.traits.columns_to_local_vars)) THEN f
    ELSE LET g == Call(AddFeedback(f, <<"Returning raw data to local variables">>), "to_dict", <<>>) IN
         IF g.pc # "run" THEN g
         ELSE [g EXCEPT !.result = NoneV,
                        !.user_ns = [v \in DOMAIN @ |-> IF v \in Columns(g.rs.raw) THEN ColumnV(g.rs.id, g.rs.raw, v) ELSE @[v]]]

\* The dataframe conversion as an alternative of the column binding.
AutoDataframe_Elif(f) ==
    IF f.pc # "run" \/ Truthy(Get(f.options, "columns_to_local_vars", f.traits.columns_to_local_vars))
       \/ ~Truthy(Get(f.options, "auto_dataframe", f.traits.auto_dataframe)) THEN f
    ELSE LET g == Call(AddFeedback(f, <<"Returning data converted to pandas dataframe">>), "to_dataframe", <<>>) IN
         IF g.pc # "run" THEN g ELSE [g EXCEPT !.result = DataFrameV(g.rs.id, g.rs.raw)]

\* auto_dataframe, lines 652-655.
AutoDataframe(f) ==
    IF f.pc # "run" \/ ~Truthy(Get(f.options, "auto_dataframe", f.traits.auto_dataframe)) THEN f
    ELSE LET g == Call(AddFeedback(f, <<"Returning data converted to pandas dataframe">>), "to_dataframe", <<>>) IN
         IF g.pc # "run" THEN g ELSE [g EXCEPT !.result = DataFrameV(g.rs.id, g.rs.raw)]

\* The variable bound on continuation as well.
ResultVar_OnContinuation(f) ==
    IF f.pc # "run" \/ ~TruthyStr(Get(f.options, "result_var", NONE)) THEN f
    ELSE LET result_var == f.options["result_var"]
             g == AddFeedback(f, <<"Returning data to local variable", result_var>>)
         IN [g EXCEPT !.user_ns[result_var] = IF g.result # NoneV THEN g.result ELSE ResultSetV(g.saved),
                      !.result = NoneV]

\* The variable always gets the ResultSet.
ResultVar_BindsResultSet(f) ==
    IF f.pc # "run" \/ ~TruthyStr(Get(f.options, "result_var", NONE)) \/ f.result_set.present THEN f
    ELSE [AddFeedback(f, <<"Returning data to local variable", f.options["result_var"]>>) EXCEPT
            !.user_ns[f.options["result_var"]] = ResultSetV(f.saved), !.result = NoneV]

\* result_var, lines 657-662.
ResultVar(f) ==
    IF f.pc # "run" \/ ~TruthyStr(Get(f.options, "result_var", NONE)) \/ f.result_set.present THEN f
    ELSE LET result_var == f.options["result_var"]
             g == AddFeedback(f, <<"Returning data to local variable", result_var>>)
         IN [g EXCEPT !.user_ns[result_var] = IF g.result # NoneV THEN g.result ELSE ResultSetV(g.saved),
                      !.result = NoneV]

\* The cache write made whenever a cache is given, in use or not.
CacheResult_IgnoresUseCache(f) ==
    IF f.pc # "run" \/ Get(f.options, "cache", NONE) = NONE THEN f
    ELSE LET g == Call(f, "cache_save", <<get_database(f.conn), get_cluster(f.conn), f.parametrized_query>>) IN
         IF g.pc # "run" THEN g ELSE AddFeedback(g, <<"query results cached">>)

\* The cache write, lines 664-667.
CacheResult(f) ==
    IF f.pc # "run" \/ Get(f.options, "cache", NONE) = NONE \/ Get(f.options, "cache", NONE) = Get(f.options, "use_cache", NONE) THEN f
    ELSE LET g == Call(f, "cache_save", <<get_database(f.conn), get_cluster(f.conn), f.parametrized_query>>) IN
         IF g.pc # "run" THEN g ELSE AddFeedback(g, <<"query results cached">>)

\* "/".join(path.split("/")[:-1])
Folder(path) == SubSeq(path, 1, Len(path) - 1)

\* The feedback lines of the saves, lines 669-675.
SaveFeedback(f) ==
    IF f.pc # "run" THEN f
    ELSE LET g == IF Get(f.options, "save_as", NONE) # NONE THEN AddFeedback(f, <<"query results saved as">> \o f.save_as_file_path) ELSE f
         IN IF Get(f.options, "save_to", NONE) # NONE THEN AddFeedback(g, <<"query results saved to">> \o Folder(g.save_as_file_path)) ELSE g

\* The suppression decision taken whether or not a result is left to return.
Suppression_Unguarded(f) ==
    IF f.pc # "run" THEN f
    ELSE LET g == [f EXCEPT !.rs.suppress_result = FALSE, !.rs.display_info = FALSE] IN
         IF g.suppress_results THEN [g EXCEPT !.rs.suppress_result = TRUE]
         ELSE IF Truthy(Get(g.options, "auto_dataframe", g.traits.auto_dataframe)) THEN Log(g, "showSuccessMessage", NoConn, <<>>)
         ELSE [g EXCEPT !.rs.display_info = TRUE]

\* The suppression decision with the display decided apart from the suppression.
Suppression_DisplaysToo(f) ==
    IF f.pc # "run" THEN f
    ELSE LET g == [f EXCEPT !.rs.suppress_result = FALSE, !.rs.display_info = FALSE] IN
         IF g.result = NoneV THEN g
         ELSE LET h == IF g.suppress_results THEN [g EXCEPT !.rs.suppress_result = TRUE] ELSE g IN
              IF Truthy(Get(h.options, "auto_dataframe", h.traits.auto_dataframe)) THEN Log(h, "showSuccessMessage", NoConn, <<>>)
              ELSE [h EXCEPT !.rs.display_info = TRUE]

\* The suppression decision, lines 677-685.
Suppression(f) ==
    IF f.pc # "run" THEN f
    ELSE LET g == [f EXCEPT !.rs.suppress_result = FALSE, !.rs.display_info = FALSE] IN
         IF g.result = NoneV THEN g
         ELSE IF g.suppress_results THEN [g EXCEPT !.rs.suppress_result = TRUE]
         ELSE IF Truthy(Get(g.options, "auto_dataframe", g.traits.auto_dataframe)) THEN Log(g, "showSuccessMessage", NoConn, <<>>)
         ELSE [g EXCEPT !.rs.display_info = TRUE]

\* The fork results, lines 687-690: one fork per table of the raw result.
ForkResults(f) ==
    IF f.pc # "run" THEN f
    ELSE IF ~f.result_set.present
    THEN [Log(f, "_create_fork_results", f.conn, <<>>) EXCEPT !.rs.forks = 0..(Tables(f.rs.raw) - 1)]
    ELSE [Log(f, "_update_fork_results", f.conn, <<>>) EXCEPT !.rs.forks = @ \cup 0..(Tables(f.rs.raw) - 1)]

\* The name of the last-raw-result variable, line 693.
LastRawResultVar(f) == Get(f.options, "last_raw_result_var", f.traits.last_raw_result_var)

\* The rebinding only of a result that is returned.
BindLastRawResult_WhenReturned(f) ==
    IF f.pc # "run" \/ f.result = NoneV THEN f ELSE [f EXCEPT !.user_ns[LastRawResultVar(f)] = ResultSetV(f.saved)]

\* The rebinding of the last raw result, line 693.
BindLastRawResult(f) ==
    IF f.pc # "run" THEN f ELSE [f EXCEPT !.user_ns[LastRawResultVar(f)] = ResultSetV(f.saved)]

\* The result returned as it stands, the ResultSet itself included.
ReturnResult_Unforked(f) ==
    IF f.pc # "run" THEN f ELSE Return(f, f.result)

\* The value returned, lines 695-697.
ReturnResult(f) ==
    IF f.pc # "run" THEN f
    ELSE IF f.result = ResultSetV(f.saved) THEN Return(f, ForkV(f.saved, f.fork_table_id))
    ELSE Return(f, f.result)

\* The error path clearing the last-raw-result variable.
ErrorPath_ClearsLastRaw(f) ==
    IF f.pc # "raised" THEN f
    ELSE LET g == IF f.connection_string = EmptyText /\ f.connections # {} /\ ~f.suppress_results
                  THEN show_connection_info(f, f.options) ELSE f
             h == [g EXCEPT !.user_ns[LastRawResultVar(g)] = NoneV]
         IN IF ShortErrors(h.options, h.traits)
            THEN Return(Log(h, "showDangerMessage", NoConn, h.exc.msg), NoneV)
            ELSE [h EXCEPT !.pc = "propagated"]

\* The error path, lines 699-708.
ErrorPath(f) ==
    IF f.pc # "raised" THEN f
    ELSE LET g == IF f.connection_string = EmptyText /\ f.connections # {} /\ ~f.suppress_results
                  THEN show_connection_info(f, f.options) ELSE f
         IN IF ShortErrors(g.options, g.traits)
            THEN Return(Log(g, "showDangerMessage", NoConn, g.exc.msg), NoneV)
            ELSE [g EXCEPT !.pc = "propagated"]

\* The invocation binding result_var before the dataframe conversion.
execute_query_VarFirst(st, caller_ns, parsed, result_set, env, log) ==
    LET f0 == Frame(st, caller_ns, parsed, result_set, env, SuppressResults(parsed.options, st.traits), log) IN
    IF f0.query = "" /\ f0.connection_string = EmptyText THEN Return(f0, NoneV)
    ELSE LET f1 == SetConnection(f0)
             f2 == AddSchemaToHelp(PopupSchema(ValidateConnection(f1)))
             f3 == SubmitQuery(NoQuery(f2))
             f4 == Annotate(ModelResult(SaveTo(SaveAs(f3))))
             f5 == AutoDataframe(ResultVar(ColumnsToLocalVars(f4)))
             f6 == ForkResults(Suppression(SaveFeedback(CacheResult(f5))))
         IN ErrorPath(ReturnResult(BindLastRawResult(f6)))

\* Kqlmagic.execute_query(parsed, user_ns, result_set), lines 501-708.
execute_query(st, caller_ns, parsed, result_set, env, log) ==
    LET f0 == Frame(st, caller_ns, parsed, result_set, env, SuppressResults(parsed.options, st.traits), log) IN
    IF f0.query = "" /\ f0.connection_string = EmptyText THEN Return(f0, NoneV)
    ELSE LET f1 == SetConnection(f0)
             f2 == AddSchemaToHelp(PopupSchema(ValidateConnection(f1)))
             f3 == SubmitQuery(NoQuery(f2))
             f4 == Annotate(ModelResult(SaveTo(SaveAs(f3))))
             f5 == ResultVar(AutoDataframe(ColumnsToLocalVars(f4)))
             f6 == ForkResults(Suppression(SaveFeedback(CacheResult(f5))))
         IN ErrorPath(ReturnResult(BindLastRawResult(f6)))

\* The state a frame leaves behind.
StateOf(f) ==
    [connections |-> f.connections, conn_options |-> f.conn_options, current |-> f.current,
     user_ns |-> f.user_ns, traits |-> f.traits, nresults |-> f.nresults, rs |-> f.rs]

\* ------------------------------------------------------------- commands

\* Kqlmagic.execute_cache_command(cache_name), lines 155-169.
execute_cache_command(tr, cache_name) ==
    IF cache_name # NONE /\ cache_name # "None" /\ cache_name # ""
    THEN [tr EXCEPT !.cache = cache_name]
    ELSE [tr EXCEPT !.cache = NONE]

\* Kqlmagic.execute_use_cache_command(cache_name), lines 171-185.
execute_use_cache_command(tr, cache_name) ==
    IF cache_name # NONE /\ cache_name # "None" /\ cache_name # ""
    THEN [tr EXCEPT !.cache = cache_name]
    ELSE [tr EXCEPT !.cache = NONE]

KnownCommands == {"version", "usage", "faq", "help", "cache", "use_cache", "palette", "palettes"}

\* The commands with the one that is not implemented passed over in silence.
RunCommand_SkipsUnknown(c, item, env) ==
    LET command == item.command.command
        param == item.command.param
        options == item.options
        tr == IF command = "cache" THEN execute_cache_command(c.st.traits, param)
              ELSE IF command = "use_cache" THEN execute_use_cache_command(c.st.traits, param)
              ELSE c.st.traits
        d == [c EXCEPT !.st.traits = tr, !.log = Append(@, Ev("command", NoConn, <<command>>))]
        result == IF command \in {"version", "usage", "faq", "help"} /\ env.url THEN CommandV("UrlReference", command)
                  ELSE IF command \in {"palette", "palettes"} THEN CommandV("Palette", command)
                  ELSE CommandV("MarkdownString", command)
    IN IF command \notin KnownCommands
       THEN [c EXCEPT !.pc = "returned", !.result = NoneV]
       ELSE IF command = "palette" /\ "palette_name" \notin DOMAIN options
       THEN [d EXCEPT !.pc = "raised", !.exc = Exc("AttributeError", <<"'NoneType' object has no attribute 'startswith'">>)]
       ELSE IF result.kind = "UrlReference"
       THEN [d EXCEPT !.pc = "returned", !.result = NoneV, !.log = Append(@, Ev("show_window", NoConn, <<command>>))]
       ELSE IF Truthy(Get(options, "popup_window", FALSE)) /\ env.html
       THEN [d EXCEPT !.pc = "returned", !.result = NoneV, !.log = Append(@, Ev("show_window", NoConn, <<command>>))]
       ELSE [d EXCEPT !.result = result]

\* A command of the cell, lines 413-472: c is the cell's run so far, item the
\* parsed command, env what its collaborators do.  "url" says that the help
\* command returned a UrlReference, "html" that the result has a _repr_html_
\* that returns text.
RunCommand(c, item, env) ==
    LET command == item.command.command
        param == item.command.param
        options == item.options
        tr == IF command = "cache" THEN execute_cache_command(c.st.traits, param)
              ELSE IF command = "use_cache" THEN execute_use_cache_command(c.st.traits, param)
              ELSE c.st.traits
        d == [c EXCEPT !.st.traits = tr, !.log = Append(@, Ev("command", NoConn, <<command>>))]
        result == IF command \in {"version", "usage", "faq", "help"} /\ env.url THEN CommandV("UrlReference", command)
                  ELSE IF command \in {"palette", "palettes"} THEN CommandV("Palette", command)
                  ELSE CommandV("MarkdownString", command)
    IN IF command \notin KnownCommands
       THEN [c EXCEPT !.pc = "raised", !.exc = Exc("ValueError", <<"command", command, "not implemented">>)]
       ELSE IF command = "palette" /\ "palette_name" \notin DOMAIN options
       THEN [d EXCEPT !.pc = "raised", !.exc = Exc("AttributeError", <<"'NoneType' object has no attribute 'startswith'">>)]
       ELSE IF result.kind = "UrlReference"
       THEN [d EXCEPT !.pc = "returned", !.result = NoneV, !.log = Append(@, Ev("show_window", NoConn, <<command>>))]
       ELSE IF Truthy(Get(options, "popup_window", FALSE)) /\ env.html
       THEN [d EXCEPT !.pc = "returned", !.result = NoneV, !.log = Append(@, Ev("show_window", NoConn, <<command>>))]
       ELSE [d EXCEPT !.result = result]

\* The query whose failure ends the cell.
RunQuery_EndsOnFailure(c, item, env) ==
    LET f == execute_query(c.st, c.caller_ns, item, NoResultSet, env, c.log) IN
    IF f.pc = "propagated"
    THEN [c EXCEPT !.st = StateOf(f), !.log = f.log, !.pc = "raised", !.exc = f.exc]
    ELSE IF f.exc # NoExc
    THEN [c EXCEPT !.st = StateOf(f), !.log = f.log, !.result = NoneV, !.pc = "returned"]
    ELSE [c EXCEPT !.st = StateOf(f), !.log = f.log, !.result = f.result]

\* A query of the cell, line 411.
RunQuery(c, item, env) ==
    LET f == execute_query(c.st, c.caller_ns, item, NoResultSet, env, c.log) IN
    IF f.pc = "propagated"
    THEN [c EXCEPT !.st = StateOf(f), !.log = f.log, !.pc = "raised", !.exc = f.exc]
    ELSE [c EXCEPT !.st = StateOf(f), !.log = f.log, !.result = f.result]

\* One turn of the loop, lines 405-472: the item is a query or a command.
RunItem(c, item, env, i) ==
    LET d == [c EXCEPT !.parsed = i] IN
    IF item.command.command \in {NONE, "submit"} THEN RunQuery(d, item, env) ELSE RunCommand(d, item, env)

\* The loop over the parsed queries, lines 404-473.
RECURSIVE RunItems(_, _, _, _)
RunItems(c, items, envs, i) ==
    IF c.pc # "run" THEN c
    ELSE IF i > Len(items) THEN [c EXCEPT !.pc = "returned"]
    ELSE RunItems(RunItem(c, items[i], envs[i], i), items, envs, i + 1)

\* The handler with the configured trait alone.
HandleError_TraitOnly(c, items) ==
    IF c.pc # "raised" THEN c
    ELSE IF c.st.traits.short_errors
    THEN [c EXCEPT !.pc = "returned", !.result = NoneV, !.log = Append(@, Ev("showDangerMessage", NoConn, c.exc.msg))]
    ELSE [c EXCEPT !.pc = "propagated"]

\* The handler of execute, lines 474-482; parsed is the index of the item the
\* loop was at, 0 when Parser.parse raised.
HandleError(c, items) ==
    IF c.pc # "raised" THEN c
    ELSE IF (IF c.parsed > 0 THEN ShortErrors(items[c.parsed].options, c.st.traits) ELSE c.st.traits.short_errors)
    THEN [c EXCEPT !.pc = "returned", !.result = NoneV, !.log = Append(@, Ev("showDangerMessage", NoConn, c.exc.msg))]
    ELSE [c EXCEPT !.pc = "propagated"]

\* Kqlmagic.execute(line, cell, local_ns), lines 392-482.  A cell is the
\* parsed queries Parser.parse makes of it (the empty sequence when the parser
\* raises) with, for each, what its collaborators do.
execute(st, cell) ==
    LET c0 == [st |-> st, caller_ns |-> st.user_ns, log |-> <<>>, pc |-> "run", exc |-> NoExc, result |-> NoneV, parsed |-> 0]
        c1 == IF cell.parse_error
              THEN [c0 EXCEPT !.pc = "raised", !.exc = Exc("ValueError", <<"parse error">>)]
              ELSE RunItems(c0, cell.items, cell.envs, 1)
    IN HandleError(c1, cell.items)

\* ---------------------------------------------------------------- inputs

VarNames == {"_kql_raw_result_", "x", "c1", "c2"}

\* A parsed query and a parsed command, as Parser.parse returns them.
Query(q, cs, opts) == [query |-> q, connection |-> cs, options |-> opts, command |-> [command |-> "submit", param |-> NONE]]

Command(name, param, opts) == [query |-> "", connection |-> EmptyText, options |-> opts, command |-> [command |-> name, param |-> param]]

\* An option given with one of the values vs, or left out.
Opt(name, vs) == {EmptyOpts} \cup {name :> v : v \in vs}

\* What the collaborators of one execute_query do: the outcome of the
\* validation probe and of the probe of the retry (<<>>, or the message of the
\* error), what the calls of get_schema_file_path return, what conn.execute
\* returns, which call of the shaping steps raises, and what a command returns.
Env(v, v2, schema, exec, fail) == [validate |-> v, validate2 |-> v2, schema |-> schema, execute |-> exec, fail |-> fail, url |-> FALSE, html |-> FALSE, clock |-> 0]

\* The error messages of a failed probe: the pieces of text in any order, each
\* at most once, at most MaxMsgLen of them.
Messages == UNION {{m \in [1..n -> {AADSTS50079, MFA, OtherText}] : \A i, j \in 1..n : m[i] = m[j] => i = j} : n \in 1..MaxMsgLen}

\* The probe passes; it fails without the signature; it fails with it, and then
\* the probe of the retry (if there is one) passes or fails.
ProbeOutcomes ==
    {<<<<>>, <<>>>>}
    \cup {<<m, <<>>>> : m \in {m \in Messages : ~(Contains(m, AADSTS50079) /\ Contains(m, MFA))}}
    \cup {<<m, v2>> : m \in {m \in Messages : Contains(m, AADSTS50079) /\ Contains(m, MFA)}, v2 \in {<<>>, <<OtherText, AADSTS50079, MFA>>}}

FailingProbes == {o \in ProbeOutcomes : o[1] # <<>>}

\* ------------------------------------------------------------ the actions

NoCall ==
    [call |-> "none", items |-> <<>>, parsed |-> 0, result_set |-> NoResultSet, log |-> <<>>, pc |-> "returned",
     result |-> NoneV, exc |-> NoExc, conn |-> NoConn]

Init ==
    /\ connections = {}
    /\ conn_options = [c \in ConnUniverse |-> {}]
    /\ current = NoConn
    /\ user_ns = [v \in VarNames |-> Unbound]
    /\ traits = DefaultTraits
    /\ nresults = 0
    /\ rs = NoRS
    /\ last = NoCall

Install(st) ==
    /\ connections' = st.connections
    /\ conn_options' = st.conn_options
    /\ current' = st.current
    /\ user_ns' = st.user_ns
    /\ traits' = st.traits
    /\ nresults' = st.nresults
    /\ rs' = st.rs

\* Whether a call may create a ResultSet.
CanCreate(n) == nresults + n <= MaxResultSets

\* The kernel runs one call at a time: the next starts when the last has ended.
Idle == last.pc \in {"returned", "propagated"}

\* A direct call execute_query(parsed, user_ns).
DoQuery(parsed, env) ==
    /\ CanCreate(IF Strip(parsed.query) = "" THEN 0 ELSE 1)
    /\ \E f \in {execute_query(StateRec, user_ns, parsed, NoResultSet, env, <<>>)} :
       /\ Install(StateOf(f))
       /\ last' = [call |-> "execute_query", items |-> <<parsed>>, parsed |-> 1, result_set |-> NoResultSet, log |-> f.log,
                   pc |-> f.pc, result |-> f.result, exc |-> f.exc, conn |-> f.conn]

\* A call execute_query(parsed, user_ns, result_set) that continues fork k of
\* the latest ResultSet.
DoContinue(parsed, k, env) ==
    /\ nresults > 0
    /\ k \in rs.forks
    /\ \E f \in {execute_query(StateRec, user_ns, parsed, [present |-> TRUE, fork_table_id |-> k], env, <<>>)} :
       /\ Install(StateOf(f))
       /\ last' = [call |-> "execute_query", items |-> <<parsed>>, parsed |-> 1, result_set |-> f.result_set, log |-> f.log,
                   pc |-> f.pc, result |-> f.result, exc |-> f.exc, conn |-> f.conn]

\* A cell handed to execute.
DoCell(cell) ==
    /\ CanCreate(Cardinality({i \in 1..Len(cell.items) : cell.items[i].command.command = "submit" /\ Strip(cell.items[i].query) # ""}))
    /\ \E c \in {execute(StateRec, cell)} :
       /\ Install(c.st)
       /\ last' = [call |-> "execute", items |-> cell.items, parsed |-> c.parsed, result_set |-> NoResultSet, log |-> c.log,
                   pc |-> c.pc, result |-> c.result, exc |-> c.exc, conn |-> NoConn]

\* ---------------------------------- the connection lifecycle: Spec

ConnTexts == {EmptyText, Garbage, Kusto1, LogAnalytics}

ConnOptions == {a @@ b : a \in Opt("short_errors", {FALSE}), b \in Opt("validate_connection_string", {FALSE})}

GoodEnv(exec) == Env(<<>>, <<>>, <<"schema.html", "schema.html">>, exec, "none")

\* A query, or none, on any connection text; the probe passes.
Connect ==
    /\ Idle
    /\ \E q \in {"", " ", "q"}, cs \in ConnTexts, o \in ConnOptions :
          \E x \in (IF q = "q" THEN {"r1", "raise"} ELSE {"r1"}) : DoQuery(Query(q, cs, o), GoodEnv(x))

\* The probe fails: on a query with any of the failures, and with one of them
\* when there is no query.
ProbeFails ==
    /\ Idle
    /\ \E q \in {"", "q"}, cs \in {Kusto1, LogAnalytics}, o \in Opt("short_errors", {FALSE}) :
          \E v \in (IF q = "q" THEN FailingProbes ELSE {<<<<OtherText>>, <<>>>>}) :
              DoQuery(Query(q, cs, o), Env(v[1], v[2], <<"schema.html", "schema.html">>, "r1", "none"))

Next == Connect \/ ProbeFails

Spec == Init /\ [][Next]_vars

\* ------------------------------------- the shaping of a result: SpecShape

\* How the result is routed: suppressed, to the columns' variables, converted
\* to a dataframe, to the variable x.
ShapeOptions ==
    {a @@ b @@ c @@ d : a \in Opt("suppress_results", {TRUE}), b \in Opt("columns_to_local_vars", {TRUE}),
                        c \in Opt("auto_dataframe", {TRUE}), d \in Opt("result_var", {"x"})}

\* Where the raw result is written: the cache, a file, a folder.
SaveOptions == {a @@ b @@ c : a \in Opt("cache", {"k"}), b \in Opt("save_as", {"file"}), c \in Opt("save_to", {"folder"})}

\* The collaborator calls of the shaping steps, each with the option that makes
\* the code reach it.
FailingSteps ==
    {<<"save_as", "save_as" :> "file">>, <<"save_to", "save_to" :> "folder">>, <<"cache_save", "cache" :> "k">>,
     <<"to_dict", "columns_to_local_vars" :> TRUE>>, <<"to_dataframe", "auto_dataframe" :> TRUE>>}

\* A query on a connection, routed any way, with either raw result.
Shape ==
    /\ Idle
    /\ \E o \in ShapeOptions, x \in RawResults : DoQuery(Query("q", Kusto1, o), GoodEnv(x))

\* A query routed any way whose raw result is written somewhere.
Saves ==
    /\ Idle
    /\ \E o \in ShapeOptions, s \in SaveOptions \ {EmptyOpts} : DoQuery(Query("q", Kusto1, o @@ s), GoodEnv("r1"))

\* A query that fails: conn.execute raises, in either short-error mode, or a
\* call of a shaping step does.
ShapeFails ==
    /\ Idle
    /\ \/ \E e \in Opt("short_errors", {FALSE}) : DoQuery(Query("q", Kusto1, e), GoodEnv("raise"))
       \/ \E s \in FailingSteps :
             DoQuery(Query("q", Kusto1, s[2]), Env(<<>>, <<>>, <<"schema.html", "schema.html">>, "r1", s[1]))

\* A query from a fork of the latest ResultSet.
Continue ==
    /\ Idle
    /\ \E o \in {EmptyOpts, "result_var" :> "x", "auto_dataframe" :> TRUE}, k \in 0..1, x \in RawResults :
          DoContinue(Query("q", Kusto1, o), k, GoodEnv(x))

NextShape == Shape \/ Saves \/ ShapeFails \/ Continue

SpecShape == Init /\ [][NextShape]_vars

\* ------------------------------------------------------- cells: SpecCell

\* The items of a cell: a query that succeeds, a query whose connection text no
\* engine parses, a command, a command that is not implemented; the failing
\* ones in either short-error mode.
CellItems ==
    {Query("q", Kusto1, EmptyOpts), Command("cache", "k", EmptyOpts)}
    \cup {Command("use_cache", name, EmptyOpts) : name \in {"k", "None"}}
    \cup {Query("q", Garbage, e) : e \in Opt("short_errors", {FALSE})}
    \cup {Command("bogus", NONE, e) : e \in Opt("short_errors", {FALSE})}

\* The cells: the parser raises, or makes up to MaxCell items of the cell.
Cells ==
    {[parse_error |-> TRUE, items |-> <<>>, envs |-> <<>>]}
    \cup UNION {{[parse_error |-> FALSE, items |-> items, envs |-> [i \in 1..n |-> GoodEnv("r1")]] : items \in [1..n -> CellItems]} : n \in 1..MaxCell}

RunCell ==
    /\ Idle
    /\ \E cell \in Cells : DoCell(cell)

\* The commands that end the cell: help, which returns a reference to a page,
\* and faq with the option popup_window, whose result renders as html; each
\* with what its collaborators do.
EndingCommands ==
    {<<Command("help", "conn", EmptyOpts), [GoodEnv("r1") EXCEPT !.url = TRUE]>>,
     <<Command("faq", NONE, "popup_window" :> TRUE), [GoodEnv("r1") EXCEPT !.html = TRUE]>>}

\* A command that ends the cell, followed by another item.
RunHelp ==
    /\ Idle
    /\ \E first \in EndingCommands, item \in CellItems :
          DoCell([parse_error |-> FALSE, items |-> <<first[1], item>>, envs |-> <<first[2], GoodEnv("r1")>>])

NextCell == RunCell \/ RunHelp

SpecCell == Init /\ [][NextCell]_vars

\* ------------------------------- the one-time setup steps: SpecSetup

\* The options of the schema steps: the popup on demand, the automatic popup
\* switched off, the registration under the help menu asked for or declined.
SchemaOptions ==
    {a @@ b @@ c : a \in Opt("popup_schema", {TRUE}), b \in Opt("auto_popup_schema", {FALSE}),
                   c \in Opt("add_schema_to_help", {TRUE, FALSE})}

\* What get_schema_file_path does at its calls: it returns a path, it returns
\* None and then a path, or it raises.
SchemaOutcomes == {<<"schema.html", "schema.html">>, <<NONE, "schema2.html">>, <<"raise", "raise">>}

\* How an invocation reports: suppressed or not, in either short-error mode.
ReportOptions == {a @@ b : a \in Opt("suppress_results", {TRUE}), b \in Opt("short_errors", {FALSE})}

\* The probe fails without the signature; with it, and the probe of the retry
\* passes; with it, and the probe of the retry fails too.
SetupProbes == {<<<<OtherText>>, <<>>>>, <<<<OtherText, AADSTS50079, MFA>>, <<>>>>, <<<<OtherText, AADSTS50079, MFA>>, <<OtherText>>>>}

\* No query, on the current connection or on a named one: the setup steps run.
Setup ==
    /\ Idle
    /\ \E cs \in {EmptyText, Kusto1}, o \in SchemaOptions, s \in SchemaOutcomes :
          DoQuery(Query("", cs, o), Env(<<>>, <<>>, s, "r1", "none"))

\* A query whose probe fails.
SetupProbeFails ==
    /\ Idle
    /\ \E cs \in {EmptyText, Kusto1}, o \in ReportOptions, v \in SetupProbes :
          DoQuery(Query("q", cs, o), Env(v[1], v[2], <<"schema.html", "schema.html">>, "r1", "none"))

\* A query that fails later: conn.execute raises, after a probe that passed or
\* after a retry with code authentication whose probe passed, or the write of
\* save_as raises.
SetupQueryFails ==
    /\ Idle
    /\ \E cs \in {EmptyText, Kusto1}, o \in ReportOptions :
          \/ DoQuery(Query("q", cs, o), GoodEnv("raise"))
          \/ DoQuery(Query("q", cs, o), Env(<<OtherText, AADSTS50079, MFA>>, <<>>, <<"schema.html", "schema.html">>, "raise", "none"))
          \/ DoQuery(Query("q", cs, o @@ ("save_as" :> "file")), Env(<<>>, <<>>, <<"schema.html", "schema.html">>, "r1", "save_as"))

NextSetup == Setup \/ SetupProbeFails \/ SetupQueryFails

SpecSetup == Init /\ [][NextSetup]_vars

\* ------------------------------------------- submitting a query: SpecSubmit

\* What the query is expanded against and where its result goes: a params_dict
\* (none, the empty one, one that binds the parameter), the variable x.
SubmitOptions ==
    {a @@ b @@ c : a \in Opt("params_dict", {"", "p"}), b \in Opt("result_var", {"x"}),
                   c \in Opt("show_conn_info", {"list"})}

\* What the clock shows when an invocation starts.
Clocks == {0, 10}

\* A query, on the current connection or on a named one.
Submit ==
    /\ Idle
    /\ \E cs \in {EmptyText, Kusto1}, o \in SubmitOptions, x \in RawResults, t \in Clocks :
          DoQuery(Query(" qx ", cs, o), [GoodEnv(x) EXCEPT !.clock = t])

\* A query from a fork of the latest ResultSet, with options of its own.
Resubmit ==
    /\ Idle
    /\ \E cs \in {EmptyText, Kusto1}, o \in Opt("params_dict", {"p2"}) \cup Opt("result_var", {"x"}),
          k \in 0..1, x \in RawResults, t \in Clocks :
          DoContinue(Query("q2", cs, o), k, [GoodEnv(x) EXCEPT !.clock = t])

\* A query whose raw result may go to the cache, with or without a cache in
\* use, and to a file.
Caches ==
    /\ Idle
    /\ \E c \in Opt("cache", {"k"}), u \in Opt("use_cache", {"k", "u"}), s \in Opt("save_as", {"file"}) :
          DoQuery(Query("q", Kusto1, c @@ u @@ s), [GoodEnv("r1") EXCEPT !.clock = 10])

\* The routings of a result that is written to the cache, a file and a folder.
\* The variable of result_var may be that of last_raw_result_var.
RouteOptions ==
    {a @@ b @@ c @@ d @@ ("cache" :> "k") @@ ("save_as" :> "file") @@ ("save_to" :> "folder") :
        a \in Opt("columns_to_local_vars", {TRUE}), b \in Opt("auto_dataframe", {TRUE}),
        c \in Opt("result_var", {"x"}), d \in Opt("last_raw_result_var", {"x"})}

\* A query whose result is written and routed every way at once.
Routes ==
    /\ Idle
    /\ \E o \in RouteOptions : DoQuery(Query("q", Kusto1, o), [GoodEnv("r1") EXCEPT !.clock = 10])

NextSubmit == Submit \/ Resubmit \/ Caches \/ Routes

SpecSubmit == Init /\ [][NextSubmit]_vars

\* ------------------------------------------------- reading the last call

VDone == "validate_connection_string_done"

PDone == "auto_popup_schema_done"

\* The places of the calls of op in a log, and how many there are.
Calls(log, op) == {i \in 1..Len(log) : log[i].op = op}

Count(log, op) == Cardinality(Calls(log, op))

\* The k-th call of op in a log that holds at least k of them.
Nth(log, op, k) == log[CHOOSE i \in Calls(log, op) : Cardinality({j \in Calls(log, op) : j <= i}) = k]

IsQueryCall(l) == l.call = "execute_query"

OptionsOf(l) == l.items[1].options

\* The connection the invocation's connection text resolved to (line 521).
Resolved(l) == IF Count(l.log, "get_connection") = 0 THEN NoConn ELSE Nth(l.log, "get_connection", 1).conn

\* The short-error mode of the invocation: its option, else the configured trait.
ShortMode(l) == Get(OptionsOf(l), "short_errors", traits.short_errors) = TRUE

ValidationEnabled(l) == Truthy(Get(OptionsOf(l), "validate_connection_string", traits.validate_connection_string))

\* The invocation passed the validation step for its connection: the probe
\* succeeded on it, or the validation was disabled.
PassedValidation(l) ==
    /\ l.conn # NoConn
    /\ \/ \E i \in Calls(l.log, "set_validation_result") : l.log[i].conn = l.conn
       \/ ~ValidationEnabled(l)

\* The first probe of the invocation failed, with this message, on this connection.
ProbeFailed(l) == Count(l.log, "validate") > 0 /\ Nth(l.log, "validate", 1).arg # <<>>

FailureMessage(l) == Nth(l.log, "validate", 1).arg

FailedConn(l) == Nth(l.log, "validate", 1).conn

EndsAsError(l, short) ==
    IF short THEN l.pc = "returned" /\ l.result = NoneV /\ l.log[Len(l.log)] = Ev("showDangerMessage", NoConn, l.exc.msg)
    ELSE l.pc = "propagated"

\* ------------------------------------------------------------ the claims

C2_RetryAtAnyPosition ==
    (/\ IsQueryCall(last) /\ ProbeFailed(last)
     /\ Contains(FailureMessage(last), AADSTS50079) /\ Contains(FailureMessage(last), MFA)
     /\ IsKustoEngine(FailedConn(last)))
    => /\ Count(last.log, "get_connection") = 2
       /\ Nth(last.log, "get_connection", 2).arg = CodeString(URI_SCHEMA_NAME(FailedConn(last)), get_cluster(FailedConn(last)), get_database(FailedConn(last)))
       /\ Count(last.log, "validate") = 2
       /\ Nth(last.log, "validate", 2).conn = Nth(last.log, "get_connection", 2).conn

\* C3: a probe that fails with a message lacking one of the two pieces of the
\* signature, or on a connection that is no KustoEngine, is not retried: no
\* connection is re-resolved, validate is not called again, the same error
\* reaches the error path, the done flag stays unset and conn.execute is not
\* called.
C3_NoRetry ==
    (/\ IsQueryCall(last) /\ ProbeFailed(last)
     /\ \/ ~Contains(FailureMessage(last), AADSTS50079)
        \/ ~Contains(FailureMessage(last), MFA)
        \/ ~IsKustoEngine(FailedConn(last)))
    => /\ Count(last.log, "get_connection") = 1
       /\ Count(last.log, "validate") = 1
       /\ last.exc = Exc("Exception", FailureMessage(last))
       /\ EndsAsError(last, ShortMode(last))
       /\ VDone \notin conn_options[FailedConn(last)]
       /\ Count(last.log, "execute") = 0

\* The full signature on a connection that is no KustoEngine: no retry.
C3_Witness ==
    /\ IsQueryCall(last) /\ ProbeFailed(last)
    /\ Find(FailureMessage(last), AADSTS50079) > 0 /\ Find(FailureMessage(last), MFA) > 0
    /\ ~IsKustoEngine(FailedConn(last))
    /\ last.pc = "returned"

\* C8: when Connection.get_connection raises a connection-string-format error,
\* execute_query in short-error mode shows the error message, then the hint to
\* run the connection help, and returns None; with short-error mode off the
\* error propagates; in both cases it calls nothing else.
C8_FormatError ==
    (IsQueryCall(last) /\ last.exc.type = "KqlEngineError")
    => IF ShortMode(last)
       THEN /\ last.pc = "returned" /\ last.result = NoneV
            /\ Len(last.log) = 3 /\ last.log[1].op = "get_connection"
            /\ last.log[2] = Ev("showDangerMessage", NoConn, last.exc.msg)
            /\ last.log[3] = Ev("showInfoMessage", NoConn, <<"to get help on connection string formats, run: %kql --help 'conn'">>)
       ELSE /\ last.pc = "propagated"
            /\ Len(last.log) = 1 /\ last.log[1].op = "get_connection"

C8_Witness == IsQueryCall(last) /\ last.exc.type = "KqlEngineError" /\ last.pc = "returned" /\ Len(last.log) = 3

\* C9 (as claimed): an invocation with an empty query and an empty connection
\* text, while the registry holds a connection, returns None and displays the
\* connection list exactly once.
C9_ListShownOnce ==
    (/\ IsQueryCall(last) /\ Strip(last.items[1].query) = "" /\ last.items[1].connection = EmptyText
     /\ connections # {})
    => /\ last.pc = "returned" /\ last.result = NoneV
       /\ Count(last.log, "showInfoMessage") = 1

\* An invocation with an empty query (after trimming) and a connection text.
EmptyQueryCall(l) == IsQueryCall(l) /\ Strip(l.items[1].query) = "" /\ l.items[1].connection # EmptyText

NothingSubmitted(l) ==
    /\ Count(l.log, "expand") = 0 /\ Count(l.log, "execute") = 0
    /\ Count(l.log, "ResultSet") = 0 /\ Count(l.log, "_update") = 0

ExecuteReturned(l) == IsQueryCall(l) /\ Count(l.log, "execute") = 1 /\ Count(l.log, "time.time") = 2

OptionOn(l, name) == Truthy(Get(OptionsOf(l), name, traits[name]))

LastRawVarOf(l) == Get(OptionsOf(l), "last_raw_result_var", traits.last_raw_result_var)

\* The invocation made or updated one ResultSet, and the last-raw-result
\* variable holds it.
Rebound(l) ==
    /\ Count(l.log, "ResultSet") + Count(l.log, "_update") = 1
    /\ user_ns[LastRawVarOf(l)] = ResultSetV(rs.id)

C5_ColumnsThenNone ==
    (ExecuteReturned(last) /\ last.exc = NoExc /\ OptionOn(last, "columns_to_local_vars"))
    => /\ \A col \in Columns(rs.raw) : user_ns[col] = ColumnV(rs.id, rs.raw, col)
       /\ last.result = NoneV

\* C6: after a successful top-level query (no result_set) with auto_dataframe
\* true and result_var 'x', the variable x holds the dataframe conversion of
\* the result, not the ResultSet, and execute_query returns None.
C6_DataframeToX ==
    (/\ ExecuteReturned(last) /\ last.exc = NoExc /\ ~last.result_set.present
     /\ OptionOn(last, "auto_dataframe") /\ Get(OptionsOf(last), "result_var", NONE) = "x")
    => /\ user_ns["x"] = DataFrameV(rs.id, rs.raw)
       /\ last.result = NoneV

\* Such a query, with the columns bound as well, on a second ResultSet.
C6_Witness ==
    /\ ExecuteReturned(last) /\ last.exc = NoExc /\ ~last.result_set.present
    /\ OptionOn(last, "auto_dataframe") /\ Get(OptionsOf(last), "result_var", NONE) = "x"
    /\ OptionOn(last, "columns_to_local_vars")
    /\ user_ns["x"] = DataFrameV(2, "r2")

\* The items of a cell that raise: a query whose connection text no engine
\* parses (line 521), a command that is not implemented (line 454).
IsQueryItem(item) == item.command.command \in {NONE, "submit"}

ItemFails(item) ==
    IF IsQueryItem(item) THEN item.connection # EmptyText /\ ~WellFormed(item.connection)
    ELSE item.command.command \notin KnownCommands

ItemShort(item) == Get(item.options, "short_errors", traits.short_errors) = TRUE

\* The items the loop reached that raised.
Failed(l) == {i \in 1..l.parsed : ItemFails(l.items[i])}

ParserFailed(l) == l.call = "execute" /\ l.exc = Exc("ValueError", <<"parse error">>)

\* C7 (as claimed): when an item of a cell raises in short-error mode, the
\* error is shown as a short danger message and execute returns None for the
\* cell; with short-error mode off the exception propagates out of execute.
C7_NoneForCell ==
    (last.call = "execute" /\ Failed(last) # {})
    => IF \A i \in Failed(last) : ItemShort(last.items[i])
       THEN last.pc = "returned" /\ last.result = NoneV /\ Count(last.log, "showDangerMessage") >= 1
       ELSE last.pc = "propagated"

\* C7 (amended): every item that raises in short-error mode (its short_errors
\* option, else the configured trait) has its error shown as one short danger
\* message; a query that failed so yields None and the cell goes on, so execute
\* returns what the last item it ran yields, None when that one failed; a
\* command that failed so, like a failure of the parser, ends the cell with
\* None; an item that raises with short-error mode off ends the cell and its
\* exception propagates out of execute.
C7_ErrorsOfCell ==
    last.call = "execute"
    => LET n == last.parsed
           short == {i \in Failed(last) : ItemShort(last.items[i])}
       IN /\ Count(last.log, "showDangerMessage") = Cardinality(short) + (IF ParserFailed(last) THEN 1 ELSE 0)
          /\ \A i \in Failed(last) : i < n => IsQueryItem(last.items[i]) /\ i \in short
          /\ IF Failed(last) # short
             THEN last.pc = "propagated" /\ n \in Failed(last) \ short /\ last.exc # NoExc
             ELSE /\ last.pc = "returned"
                  /\ (n \in Failed(last) \/ ParserFailed(last)) => last.result = NoneV
                  /\ (n > 0 /\ n \notin Failed(last) /\ IsQueryItem(last.items[n])) => last.result = ForkV(nresults, 0)
                  /\ n < Len(last.items) => ~IsQueryItem(last.items[n])

\* A cell of a failing query in short-error mode and a query that succeeds:
\* execute returns the result of the second.
C7_Witness ==
    /\ last.call = "execute" /\ last.parsed = 2
    /\ Failed(last) = {1} /\ ItemShort(last.items[1])
    /\ last.pc = "returned" /\ last.result = ForkV(nresults, 0)
    /\ Count(last.log, "showDangerMessage") = 1

\* Whether the invocation's results are suppressed (line 511).
Suppressed(l) ==
    /\ Get(OptionsOf(l), "suppress_results", FALSE) = TRUE
    /\ Get(OptionsOf(l), "enable_suppress_result", traits.enable_suppress_result) = TRUE

\* The connection info was shown to the user: the list or the current connection.
InfoShown(l) ==
    \E i \in Calls(l.log, "showInfoMessage") : l.log[i].arg \in {<<"connection list">>, <<"current connection">>}

\* C11 (as claimed): an invocation with an empty query that is not suppressed
\* reports the connection info to the user before it returns None.
C11_InfoOnEmptyQuery ==
    (IsQueryCall(last) /\ Strip(last.items[1].query) = "" /\ ~Suppressed(last) /\ last.exc = NoExc)
    => /\ last.pc = "returned" /\ last.result = NoneV
       /\ InfoShown(last)

\* The invocation ran the setup steps of its connection to their end: nothing raised.
SetUp(l) == IsQueryCall(l) /\ l.pc = "returned" /\ l.exc = NoExc /\ l.conn # NoConn

\* C12 (as claimed): an option absent from the invocation's options map takes the
\* value of the like-named trait.  For add_schema_to_help, whose trait is True:
\* an invocation without the option that set its connection up leaves the
\* connection with its schema registered under the help menu.
C12_AbsentOptionIsTrait ==
    (SetUp(last) /\ "add_schema_to_help" \notin DOMAIN OptionsOf(last) /\ traits.add_schema_to_help = TRUE)
    => "add_schema_to_help_done" \in conn_options[last.conn]

\* The places in the invocation's log where the schema of connection c was popped up.
PoppedOn(l, c) == {i \in Calls(l.log, "popup_schema") : l.log[i].conn = c}

ForcesPopup(l) == Truthy(Get(OptionsOf(l), "popup_schema", FALSE))

\* C13 (as claimed): whatever the options, the schema of a connection is popped
\* up at most once: an invocation that follows one that popped the schema of a
\* connection up does not pop it up again.
C13_PopupOnce ==
    [][\A c \in ConnUniverse : PoppedOn(last, c) # {} => PoppedOn(last', c) = {}]_vars

\* C13 (amended): the automatic popup happens at most once per connection.  The
\* auto_popup_schema_done flag of a connection is never cleared, an invocation
\* pops a schema up at most once and leaves the flag set, and once the flag is
\* set an invocation pops the schema up only when it carries the popup_schema
\* option, which forces the popup every time.
C13_AutoPopupOnce ==
    [][\A c \in ConnUniverse :
          /\ Cardinality(PoppedOn(last', c)) <= 1
          /\ PDone \in conn_options[c] => PDone \in conn_options'[c]
          /\ PoppedOn(last', c) # {} => PDone \in conn_options'[c]
          /\ (PDone \in conn_options[c] /\ PoppedOn(last', c) # {}) => ForcesPopup(last')
          /\ (ForcesPopup(last') /\ SetUp(last') /\ last'.conn = c) => PoppedOn(last', c) # {}]_vars

\* An invocation with the automatic popup enabled and no popup_schema option set
\* its connection up without a popup: the connection had been set up before.
C13_Witness ==
    /\ SetUp(last) /\ Count(last.log, "popup_schema") = 0
    /\ Truthy(Get(OptionsOf(last), "auto_popup_schema", traits.auto_popup_schema))
    /\ "popup_schema" \notin DOMAIN OptionsOf(last)

HDone == "add_schema_to_help_done"

\* The invocation registered the schema of connection c under the help menu.
Registered(l, c) ==
    /\ l.conn = c
    /\ \E i \in Calls(l.log, "add_menu_item") : l.log[i].conn = get_conn_name(c)

\* C14: the schema of a connection is registered under the help menu, keyed by
\* the connection's name, at most once.  The add_schema_to_help_done flag is
\* never cleared and is set by exactly the invocations that registered; an
\* invocation on a flagged connection registers nothing; an invocation with the
\* option enabled that sets an unflagged connection up registers, whatever
\* earlier invocations with the option disabled did.
C14_RegisteredOnce ==
    [][\A c \in ConnUniverse :
          /\ Count(last'.log, "add_menu_item") <= 1
          /\ HDone \in conn_options[c] => (HDone \in conn_options'[c] /\ ~Registered(last', c))
          /\ (HDone \notin conn_options[c] /\ HDone \in conn_options'[c]) <=> Registered(last', c)
          /\ (HDone \notin conn_options[c] /\ SetUp(last') /\ last'.conn = c
                 /\ Truthy(Get(OptionsOf(last'), "add_schema_to_help", FALSE)))
             => Registered(last', c)]_vars

\* An invocation registered the schema of a connection that an earlier
\* invocation had validated and popped up without registering.
C14_Witness ==
    /\ SetUp(last) /\ Registered(last, last.conn)
    /\ ValidationEnabled(last) /\ Count(last.log, "validate") = 0
    /\ Count(last.log, "popup_schema") = 0
    /\ HDone \in conn_options[last.conn]

\* A successful top-level query with columns_to_local_vars, auto_dataframe and
\* result_var 'x' all set.
AllThree(l) ==
    /\ ExecuteReturned(l) /\ l.exc = NoExc /\ ~l.result_set.present
    /\ OptionOn(l, "columns_to_local_vars") /\ OptionOn(l, "auto_dataframe")
    /\ Get(OptionsOf(l), "result_var", NONE) = "x"

\* C15: after a successful top-level query with columns_to_local_vars,
\* auto_dataframe and result_var all set, every column of the result is bound as
\* a variable, the variable named by result_var holds the dataframe conversion,
\* the last-raw-result variable holds the ResultSet, and None is returned.
C15_AllThreeApply ==
    AllThree(last)
    => /\ \A col \in Columns(rs.raw) : user_ns[col] = ColumnV(rs.id, rs.raw, col)
       /\ user_ns["x"] = DataFrameV(rs.id, rs.raw)
       /\ user_ns[LastRawVarOf(last)] = ResultSetV(rs.id)
       /\ last.pc = "returned" /\ last.result = NoneV

\* Such a query as the first of the session, on the one-column result, shown.
C15_Witness ==
    /\ AllThree(last) /\ ~Suppressed(last)
    /\ nresults = 1 /\ rs.raw = "r1"
    /\ user_ns["c1"] = ColumnV(1, "r1", "c1") /\ user_ns["c2"] = Unbound

\* An exception reached the error path of the invocation (lines 699-708): it was
\* raised after the connection was resolved.
ReachedErrorPath(l) == IsQueryCall(l) /\ l.exc # NoExc /\ l.exc.type \notin {"KqlEngineError", "ConnectionError"}

\* The caller gave no connection string, there are connections and the results
\* are not suppressed.
InfoDue(l) == l.items[1].connection = EmptyText /\ connections # {} /\ ~Suppressed(l)

\* C16 (as claimed): when an exception reaches the error path, the connection
\* info is shown exactly when the caller gave no connection string, the
\* registry is not empty and the results are not suppressed, and it is shown
\* before the error is displayed (short-error mode) or re-raised.
C16_InfoThenError ==
    ReachedErrorPath(last)
    => /\ InfoDue(last) <=> InfoShown(last)
       /\ EndsAsError(last, ShortMode(last))
       /\ (InfoShown(last) /\ ShortMode(last)) => last.log[Len(last.log) - 1].op = "showInfoMessage"

\* The fork the invocation works on: 0 at top level, the passed result_set's
\* fork_table_id on continuation.
ForkOf(l) == IF l.result_set.present THEN l.result_set.fork_table_id ELSE 0

\* The invocation bound the variable named by result_var (line 657).
BoundResultVar(l) == TruthyStr(Get(OptionsOf(l), "result_var", NONE)) /\ ~l.result_set.present

Registry == [connections |-> connections, current |-> current, traits |-> traits]

\* The values of the show_conn_info trait (an Enum), and a value that is none of them.
ShowConnInfoModes == {"list", "current", "None", "other"}

\* C18 (as claimed): with connections registered, _get_connection_info returns
\* the current connection only for show_conn_info 'current', the whole
\* connection list for 'list' and nothing for any other value; with the option
\* absent the mode is the show_conn_info trait.
C18_InfoByMode ==
    connections # {}
    => /\ \A mode \in ShowConnInfoModes :
             get_connection_info(Registry, "show_conn_info" :> mode) =
                IF mode = "current" THEN <<get_current_connection_formatted(Registry)>>
                ELSE IF mode = "list" THEN get_connection_list_formatted(Registry)
                ELSE <<>>
       /\ get_connection_info(Registry, EmptyOpts) = get_connection_info(Registry, "show_conn_info" :> traits.show_conn_info)

\* The last call was a cell of the one command name, which ran.
RanCommand(l, name) ==
    /\ l.call = "execute" /\ Len(l.items) = 1 /\ l.items[1].command.command = name
    /\ l.exc = NoExc /\ Count(l.log, "command") = 1

\* C19 (as claimed): after the use_cache command with a non-empty name other
\* than 'None' the use_cache setting is that name; after it with no name, the
\* name 'None' or the empty name the use_cache setting is None.
C19_UseCacheSet ==
    RanCommand(last, "use_cache")
    => traits.use_cache = IF last.items[1].command.param \in {NONE, "None", ""} THEN NONE
                          ELSE last.items[1].command.param

\* The places in the invocation's log where connection c was probed.
ProbesOn(l, c) == {i \in Calls(l.log, "validate") : l.log[i].conn = c}

\* The connection the retry with code authentication re-resolved, if any.
Retried(l) == IF Count(l.log, "get_connection") = 2 THEN Nth(l.log, "get_connection", 2).conn ELSE NoConn

\* C20 (as claimed): conn.validate is invoked at most once for a connection,
\* failing probes included: an invocation that follows one that probed a
\* connection does not probe it again.
C20_ProbedOnce ==
    [][\A c \in ConnUniverse : ProbesOn(last, c) # {} => ProbesOn(last', c) = {}]_vars

\* C20 (amended): a probe that passes leaves the connection flagged, and a
\* flagged connection is probed again only as the connection the retry with
\* code authentication re-resolves, which is probed whether flagged or not.
\* Probes that all fail leave the flag as it was, so the next invocation on
\* the connection probes it again.  An invocation probes a connection twice
\* only when its retry re-resolves the connection whose probe just failed.
C20_ProbedUntilValidated ==
    [][\A c \in ConnUniverse :
          /\ Cardinality(ProbesOn(last', c)) <= 2
          /\ Cardinality(ProbesOn(last', c)) = 2 => (Resolved(last') = c /\ Retried(last') = c)
          /\ (VDone \in conn_options[c] /\ ProbesOn(last', c) # {}) => Retried(last') = c
          /\ Retried(last') = c => ProbesOn(last', c) # {}
          /\ (\E i \in ProbesOn(last', c) : last'.log[i].arg = <<>>) => VDone \in conn_options'[c]
          /\ (ProbesOn(last', c) # {} /\ \A i \in ProbesOn(last', c) : last'.log[i].arg # <<>>)
             => ((VDone \in conn_options'[c]) = (VDone \in conn_options[c]))
          /\ (VDone \notin conn_options[c] /\ ValidationEnabled(last') /\ Resolved(last') = c) => ProbesOn(last', c) # {}]_vars

\* An invocation on the current connection probed it, although an earlier
\* invocation had resolved and probed it, and this probe passed.
C20_Witness ==
    /\ IsQueryCall(last) /\ last.items[1].connection = EmptyText
    /\ Resolved(last) = Kusto1 /\ Count(last.log, "validate") = 1
    /\ Nth(last.log, "validate", 1) = Ev("validate", Kusto1, <<>>)
    /\ VDone \in conn_options[Kusto1]

\* The probe of the retry failed, with this message.
RetryFailed(l) == Count(l.log, "validate") = 2 /\ Nth(l.log, "validate", 2).arg # <<>>

\* C21: within one invocation the retry with code authentication happens at
\* most once: validate and get_connection are called at most twice each.  When
\* the probe of the retry fails, with the signature again or without it, its
\* error reaches the error path, nothing further is resolved, probed, set up or
\* executed, and no done flag of any connection changes.
C21_RetryOnce ==
    [][IsQueryCall(last')
       => /\ Count(last'.log, "validate") <= 2
          /\ Count(last'.log, "get_connection") <= 2
          /\ RetryFailed(last')
             => /\ Count(last'.log, "get_connection") = 2
                /\ last'.exc = Exc("Exception", Nth(last'.log, "validate", 2).arg)
                /\ EndsAsError(last', Get(OptionsOf(last'), "short_errors", traits'.short_errors) = TRUE)
                /\ Count(last'.log, "set_validation_result") = 0
                /\ Count(last'.log, "popup_schema") = 0 /\ Count(last'.log, "execute") = 0
                /\ conn_options' = conn_options]_vars

\* The probe of the retry failed with the signature again and the error was
\* shown: two probes, the second on the code-authentication connection.
C21_Witness ==
    /\ IsQueryCall(last) /\ RetryFailed(last)
    /\ IsMfaFailure(Nth(last.log, "validate", 2).arg, Nth(last.log, "validate", 2).conn)
    /\ Nth(last.log, "validate", 2).conn = Retried(last)
    /\ last.pc = "returned" /\ VDone \notin conn_options[Retried(last)]

\* The invocation ran both the popup branch and the help-registration branch.
BothBranches(l) == IsQueryCall(l) /\ Count(l.log, "popup_schema") = 1 /\ Count(l.log, "add_menu_item") = 1

\* C22 (as claimed): when both branches run, get_schema_file_path is called
\* exactly once and what it returned is passed to both popup_schema and
\* add_menu_item, whatever it returned.
C22_PathComputedOnce ==
    BothBranches(last)
    => /\ Count(last.log, "get_schema_file_path") = 1
       /\ Nth(last.log, "popup_schema", 1).arg = Nth(last.log, "add_menu_item", 1).arg

\* C22 (amended): when both branches run and the call of the popup branch
\* returned a non-empty path, get_schema_file_path is called exactly once and
\* that path is passed to both; when it returned None or the empty text, the
\* help-registration branch calls get_schema_file_path a second time.  The
\* calls come before the popup and between the popup and the registration.
C22_PathReusedWhenTruthy ==
    BothBranches(last)
    => LET popped == Nth(last.log, "popup_schema", 1).arg
           calls == Calls(last.log, "get_schema_file_path")
           popup == CHOOSE i \in Calls(last.log, "popup_schema") : TRUE
           item == CHOOSE i \in Calls(last.log, "add_menu_item") : TRUE
       IN /\ popup < item
          /\ \E i \in calls : i < popup
          /\ IF TruthyStr(popped[1])
             THEN Cardinality(calls) = 1 /\ Nth(last.log, "add_menu_item", 1).arg = popped
             ELSE Cardinality(calls) = 2 /\ \E i \in calls : popup < i /\ i < item

\* Both branches ran on one path, computed once.
C22_Witness ==
    /\ BothBranches(last) /\ Count(last.log, "get_schema_file_path") = 1
    /\ Nth(last.log, "popup_schema", 1).arg = <<"schema.html">>
    /\ Nth(last.log, "add_menu_item", 1).arg = <<"schema.html">>

\* The invocation called conn.execute, with this text.
Submitted(l) == IsQueryCall(l) /\ Count(l.log, "execute") = 1

SentText(l) == Nth(l.log, "execute", 1).arg

\* C23: on continuation Parameterizer.expand is not called and the text sent to
\* conn.execute is the parametrized_query of the passed result_set, whatever
\* the invocation's query, params_dict and namespace are; at top level the text
\* sent is the expansion of the trimmed query against params_dict, or against
\* the caller's namespace when params_dict is absent or empty.
C23_TextSent ==
    [][Submitted(last')
       => IF last'.result_set.present
          THEN /\ Count(last'.log, "expand") = 0
               /\ SentText(last') = rs.parametrized_query
               /\ rs'.parametrized_query = rs.parametrized_query
          ELSE /\ Count(last'.log, "expand") = 1
               /\ Nth(last'.log, "expand", 1).arg = <<Strip(last'.items[1].query)>>
               /\ SentText(last') =
                     Expand(Strip(last'.items[1].query),
                            IF Get(OptionsOf(last'), "params_dict", "") \in {"", NONE} THEN user_ns
                            ELSE ParamsDict(OptionsOf(last')["params_dict"]))]_vars

\* A continuation with a params_dict of its own, after the variable x changed,
\* sent the text expanded when x was unbound.
C23_Witness ==
    /\ Submitted(last) /\ last.result_set.present
    /\ Get(OptionsOf(last), "params_dict", "") = "p2"
    /\ user_ns["x"] # Unbound
    /\ SentText(last) = <<"qx", Unbound>>

\* The invocation produced a ResultSet: it made one or updated the one passed.
Produced(l) == IsQueryCall(l) /\ Count(l.log, "ResultSet") + Count(l.log, "_update") = 1

\* The places in a log of the calls of any of the operations ops.
CallsOf(log, ops) == {i \in 1..Len(log) : log[i].op \in ops}

SetupSteps == {"get_connection", "validate", "set_validation_result", "get_schema_file_path", "popup_schema", "add_menu_item"}

LaterSteps == {"save_as", "save_to", "ResultSet", "_update", "to_dict", "to_dataframe", "cache_save",
               "_create_fork_results", "_update_fork_results"}

\* C24: in an invocation that produces a ResultSet, time.time is read twice: the
\* first reading follows the validation and schema steps and precedes the
\* expansion and conn.execute, the second follows conn.execute and precedes
\* every save, cache and shaping step; the ResultSet's metadata holds these two
\* readings as start_time and end_time, on continuation as well.
C24_Timestamps ==
    Produced(last)
    => /\ Count(last.log, "time.time") = 2
       /\ LET t == Calls(last.log, "time.time")
              start == CHOOSE i \in t : \A j \in t : i <= j
              end == CHOOSE i \in t : \A j \in t : j <= i
          IN /\ \A i \in CallsOf(last.log, SetupSteps) : i < start
             /\ \A i \in CallsOf(last.log, {"expand", "execute"}) : start < i /\ i < end
             /\ Count(last.log, "execute") = 1
             /\ \A i \in CallsOf(last.log, LaterSteps) : end < i
             /\ rs.metadata["start_time"] = last.log[start].arg
             /\ rs.metadata["end_time"] = last.log[end].arg
             /\ last.log[start].arg # last.log[end].arg

\* A continuation that started when the clock showed 10 left its own two
\* readings in the metadata of the ResultSet it updated.
C24_Witness ==
    /\ Produced(last) /\ last.result_set.present
    /\ rs.metadata["start_time"] = <<"time", 11>> /\ rs.metadata["end_time"] = <<"time", 12>>

\* The place of the one call of op in a log.
Place(log, op) == CHOOSE i \in Calls(log, op) : TRUE

\* The feedback of the ResultSet holds the lines of one invocation only.
OneInvocationsFeedback(r) ==
    Cardinality({i \in 1..Len(r.feedback_info) : r.feedback_info[i] = <<"Done">>}) <= 1

\* C25: a top-level invocation makes a new ResultSet with fork id 0 and an empty
\* fork table, whose metadata holds the magic, parsed and connection entries of
\* this invocation, and then creates its fork results.  A continuation makes no
\* ResultSet: it clears the feedback of the one passed, updates it in place
\* with the new raw result and refreshes its fork results, keeping the forks,
\* the identity and the creation entries it had.
C25_CreateOrUpdate ==
    [][Produced(last') /\ last'.exc = NoExc
       => IF ~last'.result_set.present
          THEN /\ Count(last'.log, "ResultSet") = 1 /\ Count(last'.log, "_update") = 0
               /\ Count(last'.log, "_create_fork_results") = 1 /\ Count(last'.log, "_update_fork_results") = 0
               /\ Place(last'.log, "ResultSet") < Place(last'.log, "_create_fork_results")
               /\ nresults' = nresults + 1 /\ rs'.id = nresults'
               /\ rs'.fork_table_id = 0
               /\ rs'.raw = Nth(last'.log, "ResultSet", 1).arg[1]
               /\ rs'.forks = 0..(Tables(rs'.raw) - 1)
               /\ DOMAIN rs'.metadata = {"magic", "parsed", "connection", "conn_info", "start_time", "end_time"}
               /\ rs'.metadata["magic"] = <<"self">>
               /\ rs'.metadata["parsed"] = <<"parsed of", rs'.id>>
               /\ rs'.metadata["connection"] = get_conn_name(last'.conn)
               /\ OneInvocationsFeedback(rs')
          ELSE /\ Count(last'.log, "ResultSet") = 0 /\ Count(last'.log, "_update") = 1
               /\ Count(last'.log, "_create_fork_results") = 0 /\ Count(last'.log, "_update_fork_results") = 1
               /\ Place(last'.log, "_update") < Place(last'.log, "_update_fork_results")
               /\ nresults' = nresults /\ rs'.id = rs.id
               /\ rs'.raw = Nth(last'.log, "_update", 1).arg[1]
               /\ rs'.forks = rs.forks \cup 0..(Tables(rs'.raw) - 1)
               /\ \A k \in {"magic", "parsed", "connection"} : rs'.metadata[k] = rs.metadata[k]
               /\ rs'.parametrized_query = rs.parametrized_query
               /\ OneInvocationsFeedback(rs')]_vars

\* A continuation from fork 1 updated the first ResultSet with a one-table
\* result: both forks are still there.
C25_Witness ==
    /\ Produced(last) /\ last.result_set.present /\ last.result_set.fork_table_id = 1
    /\ Count(last.log, "_update") = 1
    /\ rs.id = 1 /\ rs.raw = "r1" /\ rs.forks = {0, 1}
    /\ rs.metadata["parsed"] = <<"parsed of", 1>>

\* C26 (as claimed): in every ResultSet an invocation produces, the metadata
\* entry conn_info is the connection-info snapshot when the invocation gave no
\* connection string and there are connections, and the empty list otherwise.
C26_ConnInfoEntry ==
    Produced(last)
    => rs.metadata["conn_info"] =
          IF last.items[1].connection = EmptyText /\ connections # {}
          THEN get_connection_info(Registry, OptionsOf(last))
          ELSE <<>>

\* The cache the invocation writes to and the cache it reads from, if any.
CacheOf(l) == Get(OptionsOf(l), "cache", NONE)

UseCacheOf(l) == Get(OptionsOf(l), "use_cache", NONE)

NothingToReturn(l) ==
    BoundResultVar(l) \/ (OptionOn(l, "columns_to_local_vars") /\ ~OptionOn(l, "auto_dataframe"))

\* C28 (as claimed): after a successful query with suppression requested the
\* ResultSet has suppress_result true and display_info false whatever the other
\* options; without it a dataframe result shows the success banner and any
\* other result has display_info true.
C28_SuppressionWins ==
    (ExecuteReturned(last) /\ last.exc = NoExc)
    => IF Suppressed(last) THEN rs.suppress_result /\ ~rs.display_info
       ELSE IF OptionOn(last, "auto_dataframe") THEN Count(last.log, "showSuccessMessage") = 1
       ELSE rs.display_info

\* C28 (amended): the decision is taken only when a result is left to return.
\* Then suppression, if requested, sets suppress_result and nothing else; else a
\* dataframe result shows the success banner; else display_info is set.  When
\* the columns went to variables without a dataframe, or the result went to
\* the variable named by result_var, both flags are false and no banner is
\* shown, suppression requested or not.
C28_DecidedForAResult ==
    (ExecuteReturned(last) /\ last.exc = NoExc)
    => LET banner == Count(last.log, "showSuccessMessage") IN
       IF NothingToReturn(last) THEN ~rs.suppress_result /\ ~rs.display_info /\ banner = 0
       ELSE IF Suppressed(last) THEN rs.suppress_result /\ ~rs.display_info /\ banner = 0
       ELSE IF OptionOn(last, "auto_dataframe") THEN ~rs.suppress_result /\ ~rs.display_info /\ banner = 1
       ELSE ~rs.suppress_result /\ rs.display_info /\ banner = 0

\* A suppressed query that returned the dataframe: the flag is set, no banner.
C28_Witness ==
    /\ ExecuteReturned(last) /\ last.exc = NoExc /\ Suppressed(last)
    /\ last.result = DataFrameV(rs.id, rs.raw)
    /\ rs.suppress_result /\ ~rs.display_info /\ Count(last.log, "showSuccessMessage") = 0

\* A successful continuation that carries the option result_var 'x'.
ContinuedWithVar(l) ==
    /\ ExecuteReturned(l) /\ l.exc = NoExc /\ l.result_set.present
    /\ Get(OptionsOf(l), "result_var", NONE) = "x"

\* C29: a continuation with the option result_var leaves the variable it names
\* as it was, says nothing about it in the feedback, and returns what it would
\* return without the option: the fork view of the ResultSet, when no other
\* shaping option is set.
C29_NoVarOnContinuation ==
    [][ContinuedWithVar(last')
       => /\ user_ns'["x"] = user_ns["x"]
          /\ \A i \in 1..Len(rs'.feedback_info) : rs'.feedback_info[i] # <<"Returning data to local variable", "x">>
          /\ last'.result # NoneV
          /\ last'.result = ForkV(rs'.id, last'.result_set.fork_table_id)]_vars

\* A continuation from fork 1 with result_var 'x' returned the fork view while
\* x holds what an earlier query bound to it.
C29_Witness ==
    /\ ContinuedWithVar(last) /\ last.result_set.fork_table_id = 1
    /\ user_ns["x"] # Unbound
    /\ last.result = ForkV(rs.id, 1)

\* The feedback of the ResultSet holds this line.
FeedbackHas(r, line) == \E i \in 1..Len(r.feedback_info) : r.feedback_info[i] = line

\* C30 (as claimed): with save_as and save_to both set the raw result is saved
\* twice, and with feedback enabled the 'query results saved as' line reports
\* the path the explicit-path save returned and the 'query results saved to'
\* line the folder of the folder save.
C30_BothSaves ==
    (/\ ExecuteReturned(last) /\ last.exc = NoExc /\ OptionOn(last, "feedback")
     /\ Get(OptionsOf(last), "save_as", NONE) # NONE /\ Get(OptionsOf(last), "save_to", NONE) # NONE)
    => /\ Count(last.log, "save_as") = 1 /\ Count(last.log, "save_to") = 1
       /\ FeedbackHas(rs, <<"query results saved as">> \o SavedPath("filepath", OptionsOf(last)["save_as"]))
       /\ FeedbackHas(rs, <<"query results saved to">> \o Folder(SavedPath("filefolder", OptionsOf(last)["save_to"])))


\* The invocation ran to its end: the query was sent, a ResultSet made or
\* updated, and nothing raised.
Succeeded(l) == ExecuteReturned(l) /\ Produced(l) /\ l.exc = NoExc /\ l.pc = "returned"

\* The place of a collaborator call among the post-processing steps.
StepRank(op) ==
    CASE op = "save_as" -> 1 [] op = "save_to" -> 2 [] op \in {"ResultSet", "_update"} -> 3
      [] op = "to_dict" -> 4 [] op = "to_dataframe" -> 5 [] op = "cache_save" -> 7
      [] op = "showSuccessMessage" -> 8 [] op \in {"_create_fork_results", "_update_fork_results"} -> 9

PostSteps ==
    {"save_as", "save_to", "ResultSet", "_update", "to_dict", "to_dataframe", "cache_save", "showSuccessMessage",
     "_create_fork_results", "_update_fork_results"}

\* The place of the step that writes a feedback line.
LineRank(line) ==
    CASE line[1] = "Done" -> 3 [] line[1] = "Returning raw data to local variables" -> 4
      [] line[1] = "Returning data converted to pandas dataframe" -> 5
      [] line[1] = "Returning data to local variable" -> 6 [] line[1] = "query results cached" -> 7
      [] OTHER -> 8

\* The steps the options of the invocation enable, by their calls.
EnabledSteps(l) ==
    {"_create_fork_results"}
    \cup (IF Get(OptionsOf(l), "save_as", NONE) # NONE THEN {"save_as"} ELSE {})
    \cup (IF Get(OptionsOf(l), "save_to", NONE) # NONE THEN {"save_to"} ELSE {})
    \cup (IF OptionOn(l, "columns_to_local_vars") THEN {"to_dict"} ELSE {})
    \cup (IF OptionOn(l, "auto_dataframe") THEN {"to_dataframe"} ELSE {})
    \cup (IF Get(OptionsOf(l), "cache", NONE) \notin {NONE, Get(OptionsOf(l), "use_cache", NONE)} THEN {"cache_save"} ELSE {})

UnknownAt(l) ==
    /\ l.call = "execute" /\ l.parsed > 0
    /\ ~IsQueryItem(l.items[l.parsed]) /\ l.items[l.parsed].command.command \notin KnownCommands

\* The queries of the cell that were run before the item the loop stopped at.
QueriesBefore(l) == {i \in 1..(l.parsed - 1) : IsQueryItem(l.items[i])}

\* C32: a command that is not implemented raises ValueError 'command <name>
\* not implemented'; in short-error mode (the command's short_errors option,
\* else the trait) the message is shown as a danger message and execute returns
\* None, otherwise the error propagates; the command sends no query (conn.execute
\* is called at most once for each query before it in the cell) and, when no
\* query precedes it, the connections, their flags, the namespace and the
\* ResultSet are as they were.
C32_UnknownCommand ==
    [][UnknownAt(last')
       => LET l == last'
              item == l.items[l.parsed]
              message == <<"command", item.command.command, "not implemented">>
              short == Get(item.options, "short_errors", traits'.short_errors) = TRUE
          IN /\ l.exc = Exc("ValueError", message)
             /\ IF short
                THEN l.pc = "returned" /\ l.result = NoneV /\ l.log[Len(l.log)] = Ev("showDangerMessage", NoConn, message)
                ELSE l.pc = "propagated" /\ \A i \in 1..Len(l.log) : l.log[i].arg # message
             /\ Count(l.log, "execute") <= Cardinality(QueriesBefore(l))
             /\ QueriesBefore(l) = {}
                => /\ UNCHANGED <<connections, conn_options, current, user_ns, nresults, rs>>
                   /\ Count(l.log, "get_connection") = 0]_vars

\* A query, then the command that is not implemented, in short-error mode: the
\* query was sent, the message shown, and None returned.
C32_Witness ==
    /\ UnknownAt(last) /\ last.parsed = 2 /\ QueriesBefore(last) = {1}
    /\ Count(last.log, "execute") = 1 /\ last.pc = "returned" /\ last.result = NoneV
    /\ last.log[Len(last.log)] = Ev("showDangerMessage", NoConn, <<"command", "bogus", "not implemented">>)


\* The connection conn.execute was called on, and the place of the call.
ExecConn(l) == Nth(l.log, "execute", 1).conn

ExecPlace(l) == CHOOSE i \in Calls(l.log, "execute") : TRUE

\* The probes of the connection the query was sent on that failed.
FailedProbes(l) == {i \in ProbesOn(l, ExecConn(l)) : l.log[i].arg # <<>>}

\* C33 (as claimed): conn.execute is called on a connection that has both
\* done flags, and on which no validation probe of the invocation failed.
C33_NoFailedProbe ==
    Submitted(last)
    => /\ {VDone, PDone} \subseteq conn_options[ExecConn(last)]
       /\ FailedProbes(last) = {}

\* C33 (amended): conn.execute is called after every setup step of the
\* invocation, on the connection the setup ended with, which has both done
\* flags; when that connection was unflagged and validation is enabled, a probe
\* of the invocation passed on it; and the latest probe of the invocation on it,
\* if any, passed.  A probe on it failed only when it is the code-authentication
\* connection itself: its first probe failed with the signature, the retry
\* re-resolved it and the second probe passed.
C33_ExecuteOnValidated ==
    [][Submitted(last')
       => LET l == last'
              c == ExecConn(l)
          IN /\ c = l.conn /\ c # NoConn
             /\ {VDone, PDone} \subseteq conn_options'[c]
             /\ \A i \in CallsOf(l.log, SetupSteps) : i < ExecPlace(l)
             /\ (VDone \notin conn_options[c] /\ ValidationEnabled(l))
                => \E i \in ProbesOn(l, c) : l.log[i].arg = <<>>
             /\ \A i \in FailedProbes(l) :
                   /\ \E j \in ProbesOn(l, c) : j > i /\ l.log[j].arg = <<>>
                   /\ IsMfaFailure(l.log[i].arg, c)
                   /\ Resolved(l) = c /\ Retried(l) = c]_vars

\* The query was sent on a connection whose first probe failed in the same
\* invocation: the retry re-resolved the same connection and its probe passed.
C33_Witness ==
    /\ Submitted(last) /\ FailedProbes(last) # {}
    /\ Cardinality(ProbesOn(last, ExecConn(last))) = 2
    /\ {VDone, PDone} \subseteq conn_options[ExecConn(last)]


\* The retry with code authentication succeeded: the first probe failed and
\* the probe of the retry passed.
RetrySucceeded(l) ==
    /\ IsQueryCall(l) /\ Count(l.log, "validate") = 2 /\ Count(l.log, "get_connection") = 2
    /\ Nth(l.log, "validate", 2).arg = <<>>

\* C34 (as claimed): after a retry that succeeded the done flags are set on the
\* re-resolved code-authentication connection and not on the connection first
\* resolved.
C34_FlagsOnRetriedOnly ==
    RetrySucceeded(last)
    => /\ VDone \in conn_options[Retried(last)]
       /\ VDone \notin conn_options[Resolved(last)]

\* C34 (amended): after a retry that succeeded, the re-resolved connection is
\* the code-authentication connection of the cluster and database of the one
\* first resolved; the validation flag is set on it, and the popup flag once
\* the schema step has passed; the flags of the connection first resolved are
\* as they were, unless it is the re-resolved connection itself; the rest of
\* the invocation runs on the re-resolved connection as if its connection string
\* had been given: conn.execute is called on it, the metadata of the ResultSet
\* names it and holds an empty conn_info, and a later error shows no connection
\* info, whatever connection text the caller supplied.
C34_RestOnRetried ==
    [][RetrySucceeded(last')
       => LET l == last'
              c == Retried(l)
          IN /\ c = DeviceCodeString(Resolved(l)) /\ l.conn = c /\ current' = c
             /\ VDone \in conn_options'[c]
             /\ Count(l.log, "popup_schema") + Count(l.log, "execute") > 0 => PDone \in conn_options'[c]
             /\ Resolved(l) # c => conn_options'[Resolved(l)] = conn_options[Resolved(l)] /\ VDone \notin conn_options'[Resolved(l)]
             /\ \A i \in Calls(l.log, "execute") : l.log[i].conn = c
             /\ Produced(l) => rs'.metadata["conn_info"] = <<>> /\ rs'.metadata["connection"] = get_conn_name(c)
             /\ ~InfoShown(l)
             /\ l.exc # NoExc => EndsAsError(l, Get(OptionsOf(l), "short_errors", traits'.short_errors) = TRUE)]_vars

\* The caller gave no connection text, the retry re-resolved another connection
\* and succeeded, and conn.execute raised: the error was shown without the
\* connection info, although it is due for the text the caller gave.
C34_Witness ==
    /\ RetrySucceeded(last) /\ last.items[1].connection = EmptyText /\ ~Suppressed(last)
    /\ Resolved(last) = Kusto1 /\ Retried(last) # Kusto1
    /\ last.exc = Exc("Exception", <<"query failed">>) /\ last.pc = "returned"
    /\ ~InfoShown(last) /\ connections # {}
    /\ {VDone, PDone} \subseteq conn_options[Retried(last)] /\ conn_options[Kusto1] = {}


\* The invocation got as far as the schema step (line 569): its connection was
\* resolved and no probe of the validation step ended it.
ReachedSchemaStep(l) ==
    /\ IsQueryCall(l) /\ l.conn # NoConn
    /\ l.exc.type \notin {"KqlEngineError", "ConnectionError"}
    /\ \A i \in Calls(l.log, "validate") : l.log[i].arg # <<>> => \E j \in Calls(l.log, "validate") : j > i

AutoPopupOn(l) == Truthy(Get(OptionsOf(l), "auto_popup_schema", traits.auto_popup_schema))

\* C35 (as claimed): an invocation that reaches the schema step on a connection
\* leaves the connection's auto_popup_schema_done flag set, whether or not a
\* popup was shown.
C35_FlagSetOnReach ==
    ReachedSchemaStep(last) => PDone \in conn_options[last.conn]

\* C35 (amended): the popup is due when the popup_schema option asks for it, or
\* the connection is unflagged and auto_popup_schema is enabled.  An invocation
\* that reaches the schema step either shows the popup that is due, or raises
\* the error of get_schema_file_path and leaves the flag as it was, or has no
\* popup due; in the first and the last case it leaves the flag set.  So an
\* invocation with auto_popup_schema disabled and no popup_schema option sets
\* the flag without a popup, and an invocation on a flagged connection shows
\* the popup only when it carries the popup_schema option.
C35_FlagSetOnPass ==
    [][ReachedSchemaStep(last')
       => LET l == last'
              c == l.conn
              due == ForcesPopup(l) \/ (PDone \notin conn_options[c] /\ AutoPopupOn(l))
              shown == PoppedOn(l, c) # {}
          IN /\ shown => due
             /\ (due /\ ~shown)
                => /\ l.exc = Exc("Exception", <<"schema error">>)
                   /\ (PDone \in conn_options'[c]) = (PDone \in conn_options[c])
             /\ (shown \/ ~due) => PDone \in conn_options'[c]
             /\ (~AutoPopupOn(l) /\ ~ForcesPopup(l)) => ~shown /\ PDone \in conn_options'[c]]_vars

\* An invocation with auto_popup_schema disabled set an unflagged connection up:
\* no popup was shown and the flag is set.
C35_Witness ==
    /\ ReachedSchemaStep(last) /\ last.exc = NoExc
    /\ Get(OptionsOf(last), "auto_popup_schema", TRUE) = FALSE /\ ~ForcesPopup(last)
    /\ Count(last.log, "popup_schema") = 0 /\ Count(last.log, "get_connection") = 1
    /\ Nth(last.log, "get_connection", 1).arg = Kusto1
    /\ conn_options[last.conn] \in {{VDone, PDone}, {VDone, PDone, HDone}}


\* The calls that open an item of the cell: a query resolves its connection,
\* a command is dispatched.
Openings(l) == CallsOf(l.log, {"get_connection", "command"})

\* The k-th opening of the log.
Opening(l, k) == l.log[CHOOSE i \in Openings(l) : Cardinality({j \in Openings(l) : j <= i}) = k]

\* The items that end the cell: help returns a UrlReference, the option
\* popup_window pops the result of a command up in a window.
EndsCell(item) ==
    ~IsQueryItem(item) /\ (item.command.command = "help" \/ Truthy(Get(item.options, "popup_window", FALSE)))

\* What an item that was run yields, for the ResultSet counter n it left.
YieldOf(item, n) ==
    IF IsQueryItem(item) THEN (IF ItemFails(item) THEN NoneV ELSE ForkV(n, 0))
    ELSE CommandV("MarkdownString", item.command.command)

\* C36: execute runs the items of a cell in order, each once: the k-th item it
\* opens is the k-th item of the cell.  When the loop runs to the end of the
\* cell, execute returns what the last item yields and nothing of the earlier
\* ones.  A query that fails in short-error mode yields None and the loop goes
\* on to the next item.  A command that produces a UrlReference or a popup
\* window is shown by show_window as the last act of the cell: execute returns
\* None and the items after it are not run.
C36_CellOfQueries ==
    (last.call = "execute" /\ ~ParserFailed(last))
    => LET n == last.parsed
           ran == {i \in 1..n : ~(~IsQueryItem(last.items[i]) /\ ItemFails(last.items[i]))}
       IN /\ Cardinality(Openings(last)) = Cardinality(ran)
          /\ \A k \in ran :
                LET o == Opening(last, Cardinality({i \in ran : i <= k})) IN
                IF IsQueryItem(last.items[k])
                THEN o.op = "get_connection" /\ o.arg = last.items[k].connection
                ELSE o = Ev("command", NoConn, <<last.items[k].command.command>>)
          /\ Count(last.log, "execute") = Cardinality({i \in 1..n : IsQueryItem(last.items[i]) /\ ~ItemFails(last.items[i])})
          /\ \A i \in 1..n : (IsQueryItem(last.items[i]) /\ ItemFails(last.items[i]) /\ ItemShort(last.items[i]) /\ i < Len(last.items))
                             => n > i
          /\ (last.pc = "returned" /\ n = Len(last.items) /\ ~ItemFails(last.items[n]) /\ ~EndsCell(last.items[n]))
             => last.result = YieldOf(last.items[n], nresults)
          /\ \A i \in 1..n : EndsCell(last.items[i])
                => /\ i = n /\ last.pc = "returned" /\ last.result = NoneV
                   /\ last.log[Len(last.log)] = Ev("show_window", NoConn, <<last.items[i].command.command>>)
          /\ Count(last.log, "show_window") = Cardinality({i \in 1..n : EndsCell(last.items[i])})

\* The result of a command popped up in a window, with a query after it in the
\* cell: the query was not run and execute returned None.
C36_Witness ==
    /\ last.call = "execute" /\ Len(last.items) = 2 /\ last.parsed = 1
    /\ Truthy(Get(last.items[1].options, "popup_window", FALSE))
    /\ IsQueryItem(last.items[2]) /\ ~ItemFails(last.items[2])
    /\ Count(last.log, "execute") = 0 /\ Count(last.log, "show_window") = 1
    /\ last.pc = "returned" /\ last.result = NoneV


\* Where the invocation raised: resolving the connection (line 521), probing
\* it (549, 564), computing the schema file path (573, 578), or in conn.execute
\* (line 596).
RaisedInResolution(l) == IsQueryCall(l) /\ l.exc.type \in {"KqlEngineError", "ConnectionError"}

RaisedInValidation(l) ==
    /\ IsQueryCall(l) /\ Count(l.log, "validate") > 0
    /\ l.exc = Exc("Exception", Nth(l.log, "validate", Count(l.log, "validate")).arg) /\ l.exc.msg # <<>>

RaisedInSchemaStep(l) == IsQueryCall(l) /\ l.exc = Exc("Exception", <<"schema error">>)

RaisedInExecute(l) == IsQueryCall(l) /\ l.exc = Exc("Exception", <<"query failed">>) /\ Count(l.log, "execute") = 1

\* C37: an invocation in which connection resolution, validation, the schema
\* step or conn.execute raises leaves the namespace as it was, variable by
\* variable, makes no ResultSet and calls none of the steps that bind
\* variables; the variable of last_raw_result_var still holds the latest
\* ResultSet, if a query succeeded before.
C37_NamespaceKept ==
    [][(RaisedInResolution(last') \/ RaisedInValidation(last') \/ RaisedInSchemaStep(last') \/ RaisedInExecute(last'))
       => /\ \A v \in VarNames : user_ns'[v] = user_ns[v]
          /\ nresults' = nresults /\ rs' = rs
          /\ CallsOf(last'.log, {"ResultSet", "_update", "to_dict", "to_dataframe"}) = {}
          /\ nresults > 0 => user_ns'[LastRawVarOf(last')] = ResultSetV(nresults)]_vars

\* conn.execute raised in an invocation that follows a successful query: the
\* last-raw-result variable holds the ResultSet of that query.
C37_Witness ==
    /\ RaisedInExecute(last) /\ nresults = 1
    /\ user_ns["_kql_raw_result_"] = ResultSetV(1) /\ user_ns["x"] = Unbound /\ user_ns["c1"] = Unbound


\* The commands of the cell that were dispatched, by name.
Dispatched(l, name) ==
    {i \in 1..l.parsed : ~IsQueryItem(l.items[i]) /\ l.items[i].command.command = name}

\* C38 (as claimed): the cache setting is changed only by cache commands and
\* the use_cache setting only by use_cache commands: a cell that dispatches no
\* cache command leaves the cache setting as it was, and a cell that dispatches
\* no use_cache command leaves the use_cache setting as it was.
C38_EachItsOwnSetting ==
    [][last'.call = "execute"
       => /\ Dispatched(last', "cache") = {} => traits'.cache = traits.cache
          /\ Dispatched(last', "use_cache") = {} => traits'.use_cache = traits.use_cache]_vars


\* C39: the flags suppress_result and display_info of the ResultSet are never
\* both true; after a successful query that returns None, its result bound to
\* variables, both are false, suppression requested or not; after one that
\* returns a value at most the flag its options ask for is true.
C39_FlagsExclusive ==
    /\ ~(rs.suppress_result /\ rs.display_info)
    /\ (Succeeded(last) /\ last.result = NoneV) => (~rs.suppress_result /\ ~rs.display_info)
    /\ (Succeeded(last) /\ last.result # NoneV)
       => /\ rs.suppress_result => Suppressed(last)
          /\ rs.display_info => ~Suppressed(last)

\* A suppressed query whose result went to the variable of result_var: None is
\* returned and neither flag is set.
C39_Witness ==
    /\ Succeeded(last) /\ last.result = NoneV /\ Suppressed(last) /\ BoundResultVar(last)
    /\ user_ns["x"] # Unbound
    /\ ~rs.suppress_result /\ ~rs.display_info

====
